---- MODULE Spec2Model ----
(***************************************************************************)
(* Node graph core of node-slicer: the graph model (node_types.py), the    *)
(* type registry (node_definitions.py), GraphValidator and GraphExecutor   *)
(* (graph_validator.py) and NodeConverter (node_converter.py).             *)
(*                                                                         *)
(* Node and edge identifiers are Python strings that the code only ever    *)
(* compares for equality, hashes, or interpolates into messages; they are  *)
(* modelled as the positive integers 1..NumIds.  An id that no node of the *)
(* node list carries is a "non-existent" node.                             *)
(***************************************************************************)
EXTENDS Integers, Sequences, FiniteSets, TLC

\* graph: the NodeGraph under analysis.
\* report: the reports the calls of GraphValidator.validate(graph) returned, oldest first.
\* order: the outcome of GraphExecutor.get_execution_order(graph), once called.
\* steps: the outcome of NodeConverter.convert(graph), once called.
\* resultObject: a GraphValidationResult object its holder calls add_error / add_warning on.
\* run: the position of a NodeConverter.convert(graph) call that is followed
\*      statement by statement, with its local variables.
\* kahn: the position of a GraphExecutor.get_execution_order(graph) call that
\*       is followed one loop iteration at a time, with its local variables.
\* walk: the position of one of the graph traversals (the cycle search of
\*       _validate_cycles, the breadth-first searches of _validate_reachability
\*       and _topological_sort) that is followed one loop step at a time.
VARIABLES graph, report, order, steps, resultObject, run, kahn, walk

vars == <<graph, report, order, steps, resultObject, run, kahn, walk>>

(***************************************************************************)
(* Bounds of the model.                                                    *)
(***************************************************************************)
MaxNodes == 3
MaxEdges == 2
MaxEntries == 3
MaxCalls == 2

NumIds == MaxNodes
Ids == 1..NumIds

\* Optional[str] = None for node_id / edge_id / a missing lookup result.
None == 0

(***************************************************************************)
(* Python values held in Node.parameters, tagged by their runtime type.    *)
(***************************************************************************)
IntV(n) == [k |-> "int", i |-> n, s |-> ""]
FloatV(n) == [k |-> "float", i |-> n, s |-> ""]
BoolV(b) == [k |-> "bool", i |-> IF b THEN 1 ELSE 0, s |-> ""]
StrV(str) == [k |-> "str", i |-> 0, s |-> str]
NoneV == [k |-> "none", i |-> 0, s |-> ""]

\* isinstance(value, int): bool is a subclass of int.
IsInt(v) == v.k \in {"int", "bool"}
\* isinstance(value, (int, float))
IsNumber(v) == v.k \in {"int", "bool", "float"}

(***************************************************************************)
(* Formatted text (f-strings): the template, the interpolated string and   *)
(* the interpolated numbers / ids.                                         *)
(***************************************************************************)
Text(fmt, str, nums) == [fmt |-> fmt, s |-> str, ns |-> nums]
NoText == Text("<None>", "", <<>>)

(***************************************************************************)
(* node_types.py : PortDefinition, ParameterDefinition                     *)
(***************************************************************************)
PortDefinition(id, label, port_type, required) ==
    [id |-> id, label |-> label, port_type |-> port_type, required |-> required]

\* PortDefinition.is_compatible
\* Mutant: every pair of ports is compatible.
is_compatible_always(self, other) == TRUE

is_compatible(self, other) ==
    IF self.port_type = "any" \/ other.port_type = "any"
    THEN TRUE
    ELSE self.port_type = other.port_type

\* min_value / max_value / options are Optional: has_min, has_max say whether
\* they are set; options = <<>> stands for None.
ParameterDefinition(id, label, param_type, required, has_min, min_value, has_max, max_value, options) ==
    [id |-> id, label |-> label, param_type |-> param_type, required |-> required,
     has_min |-> has_min, min_value |-> min_value,
     has_max |-> has_max, max_value |-> max_value, options |-> options]

SeqRange(sq) == {sq[i] : i \in 1..Len(sq)}

ParamOk == [ok |-> TRUE, error |-> NoText]
ParamErr(t) == [ok |-> FALSE, error |-> t]

\* Mutant: the upper bound is exclusive.
BoundsCheck_exclusive_max(self, value) ==
    IF self.has_min /\ value.i < self.min_value
    THEN ParamErr(Text("{label} must be >= {min_value}", self.label, <<self.min_value>>))
    ELSE IF self.has_max /\ value.i >= self.max_value
    THEN ParamErr(Text("{label} must be <= {max_value}", self.label, <<self.max_value>>))
    ELSE ParamOk

\* The min / max part shared by the NUMBER and INTEGER branches.
BoundsCheck(self, value) ==
    IF self.has_min /\ value.i < self.min_value
    THEN ParamErr(Text("{label} must be >= {min_value}", self.label, <<self.min_value>>))
    ELSE IF self.has_max /\ value.i > self.max_value
    THEN ParamErr(Text("{label} must be <= {max_value}", self.label, <<self.max_value>>))
    ELSE ParamOk

\* ParameterDefinition.validate
ParamValidate(self, value) ==
    IF value.k = "none"
    THEN IF self.required
         THEN ParamErr(Text("{label} is required", self.label, <<>>))
         ELSE ParamOk
    ELSE IF self.param_type = "number"
    THEN IF ~IsNumber(value)
         THEN ParamErr(Text("{label} must be a number", self.label, <<>>))
         ELSE BoundsCheck(self, value)
    ELSE IF self.param_type = "integer"
    THEN IF ~IsInt(value)
         THEN ParamErr(Text("{label} must be an integer", self.label, <<>>))
         ELSE BoundsCheck(self, value)
    ELSE IF self.param_type = "boolean"
    THEN IF value.k # "bool"
         THEN ParamErr(Text("{label} must be a boolean", self.label, <<>>))
         ELSE ParamOk
    ELSE IF self.param_type = "string"
    THEN IF value.k # "str"
         THEN ParamErr(Text("{label} must be a string", self.label, <<>>))
         ELSE ParamOk
    ELSE IF self.param_type = "select"
    THEN IF self.options # <<>> /\ ~(value.k = "str" /\ value.s \in SeqRange(self.options))
         THEN ParamErr(Text("{label} must be one of: {options}", self.label, <<>>))
         ELSE ParamOk
    ELSE ParamOk

(***************************************************************************)
(* node_definitions.py : the node definitions and the registry             *)
(***************************************************************************)
NodeDefinition(id, inputs, outputs, parameters) ==
    [id |-> id, inputs |-> inputs, outputs |-> outputs, parameters |-> parameters]

ExecIn == PortDefinition("in", "In", "exec", TRUE)
ExecOut == PortDefinition("out", "Out", "exec", FALSE)
PositionOut == PortDefinition("position", "Position", "position", FALSE)
TempOut == PortDefinition("temp", "Temperature", "temperature", FALSE)

CoordParam(id, label) ==
    ParameterDefinition(id, label, "number", FALSE, FALSE, 0, FALSE, 0, <<>>)
CoordParams == <<CoordParam("x", "X"), CoordParam("y", "Y"), CoordParam("z", "Z")>>
TempParam(max) ==
    ParameterDefinition("temperature", "Temperature", "integer", TRUE, TRUE, 0, TRUE, max, <<>>)
WaitParam ==
    ParameterDefinition("wait", "Wait for Temperature", "boolean", TRUE, FALSE, 0, FALSE, 0, <<>>)

START_NODE == NodeDefinition("Start", <<>>, <<ExecOut>>, <<>>)
END_NODE == NodeDefinition("End", <<ExecIn>>, <<>>, <<>>)
HOME_NODE ==
    NodeDefinition("Home", <<ExecIn>>, <<ExecOut>>,
        <<ParameterDefinition("axes", "Axes", "select", TRUE, FALSE, 0, FALSE, 0,
                              <<"X", "Y", "Z", "XY", "XZ", "YZ", "XYZ">>)>>)
LINEAR_MOVE_NODE == NodeDefinition("LinearMove", <<ExecIn>>, <<ExecOut, PositionOut>>, CoordParams)
EXTRUDE_MOVE_NODE == NodeDefinition("ExtrudeMove", <<ExecIn>>, <<ExecOut, PositionOut>>, CoordParams)
SET_HOTEND_NODE ==
    NodeDefinition("SetHotend", <<ExecIn>>, <<ExecOut, TempOut>>, <<TempParam(300), WaitParam>>)
WAIT_HOTEND_NODE == NodeDefinition("WaitHotend", <<ExecIn>>, <<ExecOut>>, <<TempParam(300)>>)
SET_BED_NODE ==
    NodeDefinition("SetBed", <<ExecIn>>, <<ExecOut, TempOut>>, <<TempParam(120), WaitParam>>)
WAIT_BED_NODE == NodeDefinition("WaitBed", <<ExecIn>>, <<ExecOut>>, <<TempParam(120)>>)
SET_FAN_NODE ==
    NodeDefinition("SetFan", <<ExecIn>>, <<ExecOut>>,
        <<ParameterDefinition("speed", "Fan Speed", "integer", TRUE, TRUE, 0, TRUE, 100, <<>>)>>)
COMMENT_NODE ==
    NodeDefinition("Comment", <<ExecIn>>, <<ExecOut>>,
        <<ParameterDefinition("text", "Comment Text", "string", TRUE, FALSE, 0, FALSE, 0, <<>>)>>)
CUSTOM_GCODE_NODE ==
    NodeDefinition("CustomGCode", <<ExecIn>>, <<ExecOut>>,
        <<ParameterDefinition("gcode", "G-Code", "string", TRUE, FALSE, 0, FALSE, 0, <<>>)>>)

NODE_REGISTRY ==
    "Start" :> START_NODE @@ "End" :> END_NODE @@ "Home" :> HOME_NODE @@
    "LinearMove" :> LINEAR_MOVE_NODE @@ "ExtrudeMove" :> EXTRUDE_MOVE_NODE @@
    "SetHotend" :> SET_HOTEND_NODE @@ "WaitHotend" :> WAIT_HOTEND_NODE @@
    "SetBed" :> SET_BED_NODE @@ "WaitBed" :> WAIT_BED_NODE @@
    "SetFan" :> SET_FAN_NODE @@ "Comment" :> COMMENT_NODE @@
    "CustomGCode" :> CUSTOM_GCODE_NODE

\* validate_node_type; get_node_definition returns None exactly when this is false.
validate_node_type(node_type) == node_type \in DOMAIN NODE_REGISTRY

\* get_node_definition: only applied where validate_node_type holds.
get_node_definition(node_type) == NODE_REGISTRY[node_type]

\* params.get(param_def.id)
ParamGet(params, id, default) == IF id \in DOMAIN params THEN params[id] ELSE default

RECURSIVE ParamErrors(_, _, _)
ParamErrors(defs, params, i) ==
    IF i > Len(defs) THEN <<>>
    ELSE LET res == ParamValidate(defs[i], ParamGet(params, defs[i].id, NoneV))
         IN (IF res.ok THEN <<>> ELSE <<res.error>>) \o ParamErrors(defs, params, i + 1)

\* Mutant: no input is treated as required.
InputErrors_none_required(defs, inputs, i) == <<>>

\* Mutant: a required input counts as connected as soon as any port of the node is.
RECURSIVE InputErrors_any_connection(_, _, _)
InputErrors_any_connection(defs, inputs, i) ==
    IF i > Len(defs) THEN <<>>
    ELSE (IF defs[i].required /\ inputs = {}
          THEN <<Text("Required input '{label}' is missing", defs[i].label, <<>>)>>
          ELSE <<>>) \o InputErrors_any_connection(defs, inputs, i + 1)

RECURSIVE InputErrors(_, _, _)
InputErrors(defs, inputs, i) ==
    IF i > Len(defs) THEN <<>>
    ELSE (IF defs[i].required /\ defs[i].id \notin inputs
          THEN <<Text("Required input '{label}' is missing", defs[i].label, <<>>)>>
          ELSE <<>>) \o InputErrors(defs, inputs, i + 1)

\* Mutant: the loop over the parameters is left out.
NodeDefValidate_inputs_only(self, params, inputs) == InputErrors(self.inputs, inputs, 1)

\* NodeDefinition.validate: the list of error strings (is_valid = none).
NodeDefValidate(self, params, inputs) ==
    ParamErrors(self.parameters, params, 1) \o InputErrors(self.inputs, inputs, 1)

(***************************************************************************)
(* node_types.py : Node, Edge, NodeGraph                                   *)
(***************************************************************************)
Node(id, type, parameters) == [id |-> id, type |-> type, parameters |-> parameters]
Edge(id, source, source_port, target, target_port) ==
    [id |-> id, source |-> source, source_port |-> source_port,
     target |-> target, target_port |-> target_port]
NodeGraph(nodes, edges) == [nodes |-> nodes, edges |-> edges]

NoParams == [p \in {} |-> NoneV]

\* Node.get_parameter
get_parameter(node, param_id, default) == ParamGet(node.parameters, param_id, default)

RECURSIVE FirstIndex(_, _, _)
FirstIndex(nodes, node_id, i) ==
    IF i > Len(nodes) THEN None
    ELSE IF nodes[i].id = node_id THEN i
    ELSE FirstIndex(nodes, node_id, i + 1)

\* NodeGraph.get_node: the index in g.nodes of the first node with that id, None if none.
get_node(g, node_id) == FirstIndex(g.nodes, node_id, 1)

get_outgoing_edges(g, node_id) ==
    LET keep(e) == e.source = node_id IN SelectSeq(g.edges, keep)

get_incoming_edges(g, node_id) ==
    LET keep(e) == e.target = node_id IN SelectSeq(g.edges, keep)

get_predecessors(g, node_id) ==
    LET es == get_incoming_edges(g, node_id) IN [i \in 1..Len(es) |-> es[i].source]

get_successors(g, node_id) ==
    LET es == get_outgoing_edges(g, node_id) IN [i \in 1..Len(es) |-> es[i].target]

NodeIds(g) == {g.nodes[i].id : i \in 1..Len(g.nodes)}

\* A Python set is iterated in an order the code does not control: Perms(S) is
\* the set of orders in which the elements of S can come out.
Perms(S) ==
    {f \in [1..Cardinality(S) -> S] : \A i, j \in 1..Cardinality(S) : i # j => f[i] # f[j]}

\* list.count(x)
Count(sq, x) == Cardinality({i \in 1..Len(sq) : sq[i] = x})

\* set([x for x in sq if sq.count(x) > 1])
Duplicates(sq) == {x \in SeqRange(sq) : Count(sq, x) > 1}

(***************************************************************************)
(* graph_validator.py : ValidationError, GraphValidationResult             *)
(*                                                                         *)
(* exc is the exception a call ended with ("" when it returned normally).  *)
(***************************************************************************)
ValidationError(severity, message, node_id, edge_id, details) ==
    [severity |-> severity, message |-> message, node_id |-> node_id,
     edge_id |-> edge_id, details |-> details]

GraphValidationResult(is_valid) ==
    [is_valid |-> is_valid, errors |-> <<>>, warnings |-> <<>>, exc |-> ""]

add_error(self, message, node_id, edge_id, details) ==
    [self EXCEPT !.errors = Append(@, ValidationError("error", message, node_id, edge_id, details)),
                 !.is_valid = FALSE]

\* Mutant: add_warning clears is_valid as add_error does.
add_warning_invalidates(self, message, node_id, edge_id, details) ==
    [self EXCEPT !.warnings = Append(@, ValidationError("warning", message, node_id, edge_id, details)),
                 !.is_valid = FALSE]

add_warning(self, message, node_id, edge_id, details) ==
    [self EXCEPT !.warnings = Append(@, ValidationError("warning", message, node_id, edge_id, details))]

Raise(self, exception) == [self EXCEPT !.exc = exception]

\* for x in xs: result.add_error(Msg(x), node_id=NodeOf(x), edge_id=EdgeOf(x), details=Det(x))
RECURSIVE AddErrors(_, _, _, _, _, _, _)
AddErrors(self, xs, Msg(_), NodeOf(_), EdgeOf(_), Det(_), i) ==
    IF i > Len(xs) THEN self
    ELSE AddErrors(add_error(self, Msg(xs[i]), NodeOf(xs[i]), EdgeOf(xs[i]), Det(xs[i])),
                   xs, Msg, NodeOf, EdgeOf, Det, i + 1)

RECURSIVE AddWarnings(_, _, _, _, _, _, _)
AddWarnings(self, xs, Msg(_), NodeOf(_), EdgeOf(_), Det(_), i) ==
    IF i > Len(xs) THEN self
    ELSE AddWarnings(add_warning(self, Msg(xs[i]), NodeOf(xs[i]), EdgeOf(xs[i]), Det(xs[i])),
                     xs, Msg, NodeOf, EdgeOf, Det, i + 1)

(***************************************************************************)
(* GraphValidator._validate_nodes                                          *)
(***************************************************************************)
DuplicateNodeIds(g) == Duplicates([i \in 1..Len(g.nodes) |-> g.nodes[i].id])

\* Mutant: the membership test before the subscript is dropped.
TargetTracked_always(connected_inputs, edge) == TRUE

\* `if edge.target in connected_inputs`
TargetTracked(connected_inputs, edge) == edge.target \in DOMAIN connected_inputs.d

\* connected_inputs[edge.target].add(edge.target_port): KeyError on a missing key.
DictSetAdd(dict, key, x) ==
    IF key \in DOMAIN dict.d
    THEN [dict EXCEPT !.d[key] = @ \union {x}]
    ELSE [dict EXCEPT !.exc = "KeyError"]

RECURSIVE ConnectedInputsLoop(_, _, _)
ConnectedInputsLoop(g, connected_inputs, i) ==
    IF i > Len(g.edges) \/ connected_inputs.exc # "" THEN connected_inputs
    ELSE IF TargetTracked(connected_inputs, g.edges[i])
    THEN ConnectedInputsLoop(g,
             DictSetAdd(connected_inputs, g.edges[i].target, g.edges[i].target_port), i + 1)
    ELSE ConnectedInputsLoop(g, connected_inputs, i + 1)

ConnectedInputs(g) ==
    ConnectedInputsLoop(g, [d |-> [id \in NodeIds(g) |-> {}], exc |-> ""], 1)

RECURSIVE ValidateEachNode(_, _, _, _)
ValidateEachNode(g, result, connected_inputs, i) ==
    IF i > Len(g.nodes) THEN result
    ELSE LET node == g.nodes[i] IN
         IF ~validate_node_type(node.type)
         THEN ValidateEachNode(g,
                  add_error(result, Text("Unknown node type: {node.type}", node.type, <<>>),
                            node.id, None,
                            Text("Node '{node.id}' has unrecognized type '{node.type}'",
                                 node.type, <<node.id>>)),
                  connected_inputs, i + 1)
         ELSE LET errs == NodeDefValidate(get_node_definition(node.type), node.parameters,
                                          connected_inputs[node.id])
                  msg(e) == e
                  nid(e) == node.id
                  eid(e) == None
                  det(e) == Text("Parameter validation failed for node '{node.id}'", "", <<node.id>>)
              IN ValidateEachNode(g, AddErrors(result, errs, msg, nid, eid, det, 1),
                                  connected_inputs, i + 1)

_validate_nodes(g, result, dup_order) ==
    IF Len(g.nodes) = 0
    THEN add_error(result, Text("Graph is empty", "", <<>>), None, None, NoText)
    ELSE LET msg(d) == Text("Duplicate node ID: {dup_id}", "", <<d>>)
             nid(d) == d
             eid(d) == None
             det(d) == NoText
             r1 == AddErrors(result, dup_order, msg, nid, eid, det, 1)
             ci == ConnectedInputs(g)
         IN IF ci.exc # "" THEN Raise(r1, ci.exc)
            ELSE ValidateEachNode(g, r1, ci.d, 1)

(***************************************************************************)
(* GraphValidator._validate_edges                                          *)
(***************************************************************************)
DuplicateEdgeIds(g) == Duplicates([i \in 1..Len(g.edges) |-> g.edges[i].id])

\* Mutant: only the source of an edge is looked up.
RECURSIVE ValidateEachEdge_source_only(_, _, _)
ValidateEachEdge_source_only(g, result, i) ==
    IF i > Len(g.edges) THEN result
    ELSE LET edge == g.edges[i] IN
         IF get_node(g, edge.source) = None
         THEN ValidateEachEdge_source_only(g,
                  add_error(result,
                            Text("Edge references non-existent source node: {edge.source}",
                                 "", <<edge.source>>),
                            None, edge.id, NoText), i + 1)
         ELSE ValidateEachEdge_source_only(g, result, i + 1)

RECURSIVE ValidateEachEdge(_, _, _)
ValidateEachEdge(g, result, i) ==
    IF i > Len(g.edges) THEN result
    ELSE LET edge == g.edges[i] IN
         IF get_node(g, edge.source) = None
         THEN ValidateEachEdge(g,
                  add_error(result,
                            Text("Edge references non-existent source node: {edge.source}",
                                 "", <<edge.source>>),
                            None, edge.id, NoText), i + 1)
         ELSE IF get_node(g, edge.target) = None
         THEN ValidateEachEdge(g,
                  add_error(result,
                            Text("Edge references non-existent target node: {edge.target}",
                                 "", <<edge.target>>),
                            None, edge.id, NoText), i + 1)
         ELSE ValidateEachEdge(g, result, i + 1)

_validate_edges(g, result, dup_order) ==
    LET r0 == IF Len(g.edges) = 0 /\ Len(g.nodes) > 1
              THEN add_warning(result, Text("Graph has nodes but no connections", "", <<>>),
                               None, None, NoText)
              ELSE result
        msg(d) == Text("Duplicate edge ID: {dup_id}", "", <<d>>)
        nid(d) == None
        eid(d) == d
        det(d) == NoText
        r1 == AddErrors(r0, dup_order, msg, nid, eid, det, 1)
    IN ValidateEachEdge(g, r1, 1)

(***************************************************************************)
(* GraphValidator._validate_start_node / _validate_end_node                *)
(***************************************************************************)
NodesOfType(g, type) == LET keep(n) == n.type = type IN SelectSeq(g.nodes, keep)

\* Mutant: only the absence of a Start node is reported.
_validate_start_node_zero_only(g, result) ==
    IF Len(NodesOfType(g, "Start")) = 0
    THEN add_error(result, Text("Graph must have exactly one Start node", "", <<>>),
                   None, None, NoText)
    ELSE result

\* Mutant: the details name the first Start node only.
_validate_start_node_first_id(g, result) ==
    LET start_nodes == NodesOfType(g, "Start") IN
    IF Len(start_nodes) = 0
    THEN add_error(result, Text("Graph must have exactly one Start node", "", <<>>),
                   None, None, NoText)
    ELSE IF Len(start_nodes) > 1
    THEN add_error(result,
                   Text("Graph has multiple Start nodes ({len(start_nodes)})", "",
                        <<Len(start_nodes)>>),
                   None, None,
                   Text("Found Start nodes: {ids}", "", <<start_nodes[1].id>>))
    ELSE result

_validate_start_node(g, result) ==
    LET start_nodes == NodesOfType(g, "Start") IN
    IF Len(start_nodes) = 0
    THEN add_error(result, Text("Graph must have exactly one Start node", "", <<>>),
                   None, None, NoText)
    ELSE IF Len(start_nodes) > 1
    THEN add_error(result,
                   Text("Graph has multiple Start nodes ({len(start_nodes)})", "",
                        <<Len(start_nodes)>>),
                   None, None,
                   Text("Found Start nodes: {ids}", "",
                        [i \in 1..Len(start_nodes) |-> start_nodes[i].id]))
    ELSE result

\* Mutant: the End nodes are looked up under the type "end".
_validate_end_node_lowercase(g, result) ==
    IF Len(NodesOfType(g, "end")) = 0
    THEN add_warning(result, Text("Graph should have at least one End node", "", <<>>),
                     None, None, NoText)
    ELSE result

_validate_end_node(g, result) ==
    IF Len(NodesOfType(g, "End")) = 0
    THEN add_warning(result, Text("Graph should have at least one End node", "", <<>>),
                     None, None, NoText)
    ELSE result

(***************************************************************************)
(* GraphValidator._validate_cycles                                         *)
(***************************************************************************)
\* Mutant: the slice starts at the head of the path instead of at the repeated id.
ListIndex_head(sq, x, i) == 1

\* list.index(x): position of the first x in the list.
RECURSIVE ListIndex(_, _, _)
ListIndex(sq, x, i) ==
    IF i > Len(sq) THEN None
    ELSE IF sq[i] = x THEN i
    ELSE ListIndex(sq, x, i + 1)

\* The state of the DFS: the closed-over sets visited and rec_stack, and the
\* value the call returns (cycle; <<>> stands for None).
DfsState(visited, rec_stack, cycle) ==
    [visited |-> visited, rec_stack |-> rec_stack, cycle |-> cycle]

\* Mutant: the recursion stack is never consulted.
OnStack_never(successor_id, rec_stack) == FALSE

\* `elif successor_id in rec_stack`
OnStack(successor_id, rec_stack) == successor_id \in rec_stack

RECURSIVE dfs(_, _, _, _)
RECURSIVE DfsSuccessors(_, _, _, _, _, _)

\* The nested function dfs(node_id, path) of _validate_cycles.
dfs(g, node_id, path, st) ==
    DfsSuccessors(g, node_id, Append(path, node_id), get_successors(g, node_id), 1,
                  DfsState(st.visited \union {node_id}, st.rec_stack \union {node_id}, <<>>))

\* The loop `for successor_id in graph.get_successors(node_id)` and what follows it.
DfsSuccessors(g, node_id, path, succs, i, st) ==
    IF i > Len(succs)
    THEN DfsState(st.visited, st.rec_stack \ {node_id}, <<>>)
    ELSE IF succs[i] \notin st.visited
    THEN LET sub == dfs(g, succs[i], path, st) IN
         IF sub.cycle # <<>> THEN sub
         ELSE DfsSuccessors(g, node_id, path, succs, i + 1, sub)
    ELSE IF OnStack(succs[i], st.rec_stack)
    THEN DfsState(st.visited, st.rec_stack,
                  SubSeq(path, ListIndex(path, succs[i], 1), Len(path)) \o <<succs[i]>>)
    ELSE DfsSuccessors(g, node_id, path, succs, i + 1, st)

\* The loop `for node in graph.nodes` of _validate_cycles: the first cycle found.
RECURSIVE FirstCycle(_, _, _)
FirstCycle(g, i, st) ==
    IF i > Len(g.nodes) THEN <<>>
    ELSE IF g.nodes[i].id \notin st.visited
    THEN LET sub == dfs(g, g.nodes[i].id, <<>>, st) IN
         IF sub.cycle # <<>> THEN sub.cycle ELSE FirstCycle(g, i + 1, sub)
    ELSE FirstCycle(g, i + 1, st)

\* Mutant: the visited set outlives the call, so a later call on the same graph
\* finds every node visited and reports no cycle.
_validate_cycles_stale_visited(g, result) ==
    LET cycle == IF report # <<>> THEN <<>> ELSE FirstCycle(g, 1, DfsState({}, {}, <<>>)) IN
    IF cycle # <<>>
    THEN add_error(result, Text("Graph contains a cycle", "", <<>>), None, None,
                   Text("Cycle detected: {cycle_str}", "", cycle))
    ELSE result

_validate_cycles(g, result) ==
    LET cycle == FirstCycle(g, 1, DfsState({}, {}, <<>>)) IN
    IF cycle # <<>>
    THEN add_error(result, Text("Graph contains a cycle", "", <<>>), None, None,
                   Text("Cycle detected: {cycle_str}", "", cycle))
    ELSE result

(***************************************************************************)
(* GraphValidator._validate_reachability                                   *)
(***************************************************************************)
\* The BFS loop `while queue`.
RECURSIVE ReachableFrom(_, _, _)
ReachableFrom(g, queue, reachable) ==
    IF queue = <<>> THEN reachable
    ELSE IF Head(queue) \in reachable
    THEN ReachableFrom(g, Tail(queue), reachable)
    ELSE ReachableFrom(g, Tail(queue) \o get_successors(g, Head(queue)),
                       reachable \union {Head(queue)})

\* `if len(start_nodes) != 1: return`
ReachabilityChecked(g) == Len(NodesOfType(g, "Start")) = 1

\* unreachable = all_node_ids - reachable
Unreachable(g) ==
    IF ~ReachabilityChecked(g) THEN {}
    ELSE NodeIds(g) \ ReachableFrom(g, <<NodesOfType(g, "Start")[1].id>>, {})

\* Mutant: the unreachable nodes are recorded with add_error.
_validate_reachability_as_errors(g, result, unreachable_order) ==
    IF ~ReachabilityChecked(g) THEN result
    ELSE LET msg(n) == Text("Node is unreachable from Start", "", <<>>)
             nid(n) == n
             eid(n) == None
             det(n) == NoText
         IN AddErrors(result, unreachable_order, msg, nid, eid, det, 1)

_validate_reachability(g, result, unreachable_order) ==
    IF ~ReachabilityChecked(g) THEN result
    ELSE LET msg(n) == Text("Node is unreachable from Start", "", <<>>)
             nid(n) == n
             eid(n) == None
             det(n) == Text("Node '{node_id}' ({node.type}) cannot be reached",
                            g.nodes[get_node(g, n)].type, <<n>>)
         IN AddWarnings(result, unreachable_order, msg, nid, eid, det, 1)

(***************************************************************************)
(* GraphValidator._validate_connections                                    *)
(***************************************************************************)
\* `for port in ports: if port.id == port_id: ...; break`: index of the port, None if absent.
RECURSIVE FindPort(_, _, _)
FindPort(ports, port_id, i) ==
    IF i > Len(ports) THEN None
    ELSE IF ports[i].id = port_id THEN i
    ELSE FindPort(ports, port_id, i + 1)

\* The body of the loop over the edges, for one edge.
ValidateConnection(g, result, edge) ==
    LET s == get_node(g, edge.source)
        t == get_node(g, edge.target)
    IN IF s = None \/ t = None THEN result
       ELSE LET source_node == g.nodes[s]
                target_node == g.nodes[t]
            IN IF ~validate_node_type(source_node.type) \/ ~validate_node_type(target_node.type)
               THEN result
               ELSE LET source_def == get_node_definition(source_node.type)
                        target_def == get_node_definition(target_node.type)
                        sp == FindPort(source_def.outputs, edge.source_port, 1)
                        tp == FindPort(target_def.inputs, edge.target_port, 1)
                    IN IF sp = None
                       THEN add_error(result,
                                Text("Source node does not have output port '{edge.source_port}'",
                                     edge.source_port, <<>>),
                                None, edge.id,
                                Text("Node '{id}' ({type}) does not define output port '{port}'",
                                     edge.source_port, <<source_node.id>>))
                       ELSE IF tp = None
                       THEN add_error(result,
                                Text("Target node does not have input port '{edge.target_port}'",
                                     edge.target_port, <<>>),
                                None, edge.id,
                                Text("Node '{id}' ({type}) does not define input port '{port}'",
                                     edge.target_port, <<target_node.id>>))
                       ELSE IF ~is_compatible(source_def.outputs[sp], target_def.inputs[tp])
                       THEN add_error(result, Text("Incompatible port types", "", <<>>),
                                None, edge.id,
                                Text("Cannot connect {source} output to {target} input",
                                     source_def.outputs[sp].port_type, <<>>))
                       ELSE result

RECURSIVE ValidateConnections(_, _, _)
ValidateConnections(g, result, i) ==
    IF i > Len(g.edges) THEN result
    ELSE ValidateConnections(g, ValidateConnection(g, result, g.edges[i]), i + 1)

_validate_connections(g, result) == ValidateConnections(g, result, 1)

(***************************************************************************)
(* GraphValidator._validate_isolated_nodes                                 *)
(***************************************************************************)
IsIsolated(g, node) ==
    /\ node.type \notin {"Start", "End"}
    /\ Len(get_incoming_edges(g, node.id)) = 0
    /\ Len(get_outgoing_edges(g, node.id)) = 0

_validate_isolated_nodes(g, result) ==
    LET keep(n) == IsIsolated(g, n)
        msg(n) == Text("Node is isolated", "", <<>>)
        nid(n) == n.id
        eid(n) == None
        det(n) == Text("Node '{node.id}' ({node.type}) has no connections", n.type, <<n.id>>)
    IN AddWarnings(result, SelectSeq(g.nodes, keep), msg, nid, eid, det, 1)

(***************************************************************************)
(* GraphValidator.validate                                                 *)
(*                                                                         *)
(* so gives the order in which the three sets the checks iterate over come *)
(* out: the duplicate node ids, the duplicate edge ids, the unreachable    *)
(* node ids.                                                               *)
(***************************************************************************)
SetOrders(g) ==
    [dup_nodes : Perms(IF Len(g.nodes) = 0 THEN {} ELSE DuplicateNodeIds(g)),
     dup_edges : Perms(DuplicateEdgeIds(g)),
     unreachable : Perms(Unreachable(g))]

validate(g, so) ==
    LET r1 == _validate_nodes(g, GraphValidationResult(TRUE), so.dup_nodes) IN
    IF r1.exc # "" THEN r1
    ELSE LET r2 == _validate_edges(g, r1, so.dup_edges)
             r3 == _validate_start_node(g, r2)
             r4 == _validate_end_node(g, r3)
             r5 == _validate_cycles(g, r4)
             r6 == _validate_reachability(g, r5, so.unreachable)
             r7 == _validate_connections(g, r6)
         IN _validate_isolated_nodes(g, r7)

(***************************************************************************)
(* graph_validator.py : GraphExecutor.get_execution_order                  *)
(*                                                                         *)
(* A Node object is named by its index in graph.nodes (two nodes with the  *)
(* same id are two objects).  The outcome of a call: exc is the exception  *)
(* raised ("" when the call returned), nodes the returned list.            *)
(***************************************************************************)
Outcome(exc, message, nodes) == [exc |-> exc, message |-> message, nodes |-> nodes]

\* in_degree = {node.id: 0 ...}; for edge in edges: if edge.target in in_degree: += 1
InDegree(g) ==
    [id \in NodeIds(g) |->
        Cardinality({i \in 1..Len(g.edges) : g.edges[i].target = id})]

\* Mutant: the queue is left in arrival order.
SortStartFirst_unsorted(g, queue) == queue

\* queue.sort(key=lambda n: 0 if n.type == "Start" else 1): a stable sort.
SortStartFirst(g, queue) ==
    LET isStart(n) == g.nodes[n].type = "Start"
        notStart(n) == g.nodes[n].type # "Start"
    IN SelectSeq(queue, isStart) \o SelectSeq(queue, notStart)

\* in_degree[successor_id] -= 1: KeyError when successor_id is no key of in_degree.
Decrement(st, successor_id) ==
    IF successor_id \in DOMAIN st.in_degree
    THEN [st EXCEPT !.in_degree[successor_id] = @ - 1]
    ELSE [st EXCEPT !.exc = "KeyError"]

\* The loop `for successor_id in graph.get_successors(node.id)`.
RECURSIVE ReduceSuccessors(_, _, _, _)
ReduceSuccessors(g, succs, i, st) ==
    IF i > Len(succs) \/ st.exc # "" THEN st
    ELSE LET d == Decrement(st, succs[i]) IN
         IF d.exc # "" THEN d
         ELSE IF d.in_degree[succs[i]] = 0 /\ get_node(g, succs[i]) # None
         THEN ReduceSuccessors(g, succs, i + 1,
                  [d EXCEPT !.queue = Append(@, get_node(g, succs[i]))])
         ELSE ReduceSuccessors(g, succs, i + 1, d)

\* The loop `while queue`.
RECURSIVE KahnLoop(_, _)
KahnLoop(g, st) ==
    IF st.queue = <<>> \/ st.exc # "" THEN st
    ELSE LET q == SortStartFirst(g, st.queue)
             node == q[1]
         IN KahnLoop(g,
                ReduceSuccessors(g, get_successors(g, g.nodes[node].id), 1,
                    [st EXCEPT !.queue = Tail(q), !.result = Append(@, node)]))

get_execution_order(g) ==
    IF Len(NodesOfType(g, "Start")) # 1
    THEN Outcome("ValueError", "Graph must have exactly one Start node", <<>>)
    ELSE LET in_degree == InDegree(g)
             ready(n) == in_degree[g.nodes[n].id] = 0
             st == KahnLoop(g, [in_degree |-> in_degree,
                                queue |-> SelectSeq([i \in 1..Len(g.nodes) |-> i], ready),
                                result |-> <<>>, exc |-> ""])
         IN IF st.exc # "" THEN Outcome(st.exc, "", <<>>)
            ELSE IF Len(st.result) # Len(g.nodes)
            THEN Outcome("ValueError",
                         "Graph contains cycles - cannot determine execution order", <<>>)
            ELSE Outcome("", "", st.result)

(***************************************************************************)
(* node_converter.py : NodeConverter                                       *)
(***************************************************************************)
node_handlers ==
    {"Start", "End", "Home", "LinearMove", "ExtrudeMove", "SetHotend", "WaitHotend",
     "SetBed", "WaitBed", "SetFan", "Comment", "CustomGCode"}

\* NodeConverter._has_cycles: the DFS without the path; found stands for `return True`.
RECURSIVE HasCyclesDfs(_, _, _)
RECURSIVE HasCyclesSuccessors(_, _, _, _, _)

HasCyclesDfs(g, node_id, st) ==
    HasCyclesSuccessors(g, node_id, get_successors(g, node_id), 1,
        [visited |-> st.visited \union {node_id},
         rec_stack |-> st.rec_stack \union {node_id}, found |-> FALSE])

HasCyclesSuccessors(g, node_id, succs, i, st) ==
    IF i > Len(succs)
    THEN [st EXCEPT !.rec_stack = @ \ {node_id}]
    ELSE IF succs[i] \notin st.visited
    THEN LET sub == HasCyclesDfs(g, succs[i], st) IN
         IF sub.found THEN sub
         ELSE HasCyclesSuccessors(g, node_id, succs, i + 1, sub)
    ELSE IF succs[i] \in st.rec_stack
    THEN [st EXCEPT !.found = TRUE]
    ELSE HasCyclesSuccessors(g, node_id, succs, i + 1, st)

RECURSIVE HasCyclesRoots(_, _, _)
HasCyclesRoots(g, i, st) ==
    IF i > Len(g.nodes) THEN FALSE
    ELSE IF g.nodes[i].id \notin st.visited
    THEN LET sub == HasCyclesDfs(g, g.nodes[i].id, st) IN
         IF sub.found THEN TRUE ELSE HasCyclesRoots(g, i + 1, sub)
    ELSE HasCyclesRoots(g, i + 1, st)

\* Mutant: the depth-first search is started from the first node only.
_has_cycles_from_first(g) ==
    /\ Len(g.nodes) > 0
    /\ HasCyclesDfs(g, g.nodes[1].id, [visited |-> {}, rec_stack |-> {}, found |-> FALSE]).found

_has_cycles(g) == HasCyclesRoots(g, 1, [visited |-> {}, rec_stack |-> {}, found |-> FALSE])

\* Mutant: the node types are not checked against the handler table.
FirstUnhandled_skipped(g, i) == None

\* The loop over graph.nodes of _validate_graph: index of the first node whose
\* type has no handler, None if every type has one.
RECURSIVE FirstUnhandled(_, _)
FirstUnhandled(g, i) ==
    IF i > Len(g.nodes) THEN None
    ELSE IF g.nodes[i].type \notin node_handlers THEN i
    ELSE FirstUnhandled(g, i + 1)

\* Mutant: the node types are checked before the cycles.
_validate_graph_types_first(g) ==
    IF FirstUnhandled(g, 1) # None THEN "Unknown node type: {node.type}"
    ELSE IF _has_cycles(g) THEN "Graph contains cycles"
    ELSE ""

\* NodeConverter._validate_graph: the message of the GraphValidationError raised, "" if none.
_validate_graph(g) ==
    IF _has_cycles(g) THEN "Graph contains cycles"
    ELSE IF FirstUnhandled(g, 1) # None THEN "Unknown node type: {node.type}"
    ELSE ""

\* NodeConverter._find_start_node: index of the first Start node, None if none.
RECURSIVE FindStart(_, _)
FindStart(g, i) ==
    IF i > Len(g.nodes) THEN None
    ELSE IF g.nodes[i].type = "Start" THEN i
    ELSE FindStart(g, i + 1)

\* Mutant: the last Start node of the list is taken.
_find_start_node_last(g) ==
    LET S == {i \in 1..Len(g.nodes) : g.nodes[i].type = "Start"}
    IN IF S = {} THEN None ELSE CHOOSE m \in S : \A x \in S : x <= m

_find_start_node(g) == FindStart(g, 1)

\* `for successor_id in graph.get_successors(node_id): if successor_id not in visited: queue.append`
UnvisitedOf(succs, visited) ==
    LET keep(n) == n \notin visited IN SelectSeq(succs, keep)

\* Mutant: a dequeued id is never taken as visited.
AlreadyVisited_never(node_id, visited) == FALSE

\* `if node_id in visited: continue`
AlreadyVisited(node_id, visited) == node_id \in visited

\* The loop `while queue` of _topological_sort.
RECURSIVE TopoLoop(_, _, _, _)
TopoLoop(g, queue, visited, result) ==
    IF queue = <<>> THEN result
    ELSE LET node_id == Head(queue) IN
         IF AlreadyVisited(node_id, visited) THEN TopoLoop(g, Tail(queue), visited, result)
         ELSE IF get_node(g, node_id) # None
         THEN TopoLoop(g,
                  Tail(queue) \o UnvisitedOf(get_successors(g, node_id), visited \union {node_id}),
                  visited \union {node_id}, Append(result, get_node(g, node_id)))
         ELSE TopoLoop(g, Tail(queue), visited \union {node_id}, result)

_topological_sort(g, start_node) == TopoLoop(g, <<g.nodes[start_node].id>>, {}, <<>>)

\* A FullControl step object: its class and its constructor arguments.
Step(cls, args) == [cls |-> cls, args |-> args]

\* NodeConverter._convert_node with the per-type handlers _convert_*.
_convert_node(node) ==
    IF node.type \notin node_handlers THEN <<>>
    ELSE CASE node.type = "Start" -> <<>>
           [] node.type = "End" -> <<Step("GcodeComment", <<StrV("End of print")>>)>>
           [] node.type = "Home" ->
                <<Step("ManualGcode", <<StrV("G28 {axes}"), get_parameter(node, "axes", StrV("XYZ"))>>)>>
           [] node.type = "LinearMove" ->
                <<Step("Point", <<get_parameter(node, "x", NoneV), get_parameter(node, "y", NoneV),
                                  get_parameter(node, "z", NoneV)>>)>>
           [] node.type = "ExtrudeMove" ->
                <<Step("Extruder", <<BoolV(TRUE)>>),
                  Step("Point", <<get_parameter(node, "x", NoneV), get_parameter(node, "y", NoneV),
                                  get_parameter(node, "z", NoneV)>>)>>
           [] node.type = "SetHotend" ->
                <<Step("Hotend", <<get_parameter(node, "temperature", IntV(200)),
                                   get_parameter(node, "wait", BoolV(FALSE))>>)>>
           [] node.type = "WaitHotend" ->
                <<Step("Hotend", <<get_parameter(node, "temperature", IntV(200)), BoolV(TRUE)>>)>>
           [] node.type = "SetBed" ->
                <<Step("Buildplate", <<get_parameter(node, "temperature", IntV(60)),
                                       get_parameter(node, "wait", BoolV(FALSE))>>)>>
           [] node.type = "WaitBed" ->
                <<Step("Buildplate", <<get_parameter(node, "temperature", IntV(60)), BoolV(TRUE)>>)>>
           [] node.type = "SetFan" ->
                <<Step("Fan", <<get_parameter(node, "speed", IntV(100))>>)>>
           [] node.type = "Comment" ->
                <<Step("GcodeComment", <<get_parameter(node, "text", StrV(""))>>)>>
           [] node.type = "CustomGCode" ->
                <<Step("ManualGcode", <<get_parameter(node, "gcode", StrV(""))>>)>>

\* Mutant: `steps = node_steps` in place of `steps.extend(node_steps)`.
ConvertNodes_overwrite(g, sorted_nodes, i) ==
    IF sorted_nodes = <<>> THEN <<>>
    ELSE _convert_node(g.nodes[sorted_nodes[Len(sorted_nodes)]])

\* The loop `for node in sorted_nodes: steps.extend(self._convert_node(node, graph))`.
RECURSIVE ConvertNodes(_, _, _)
ConvertNodes(g, sorted_nodes, i) ==
    IF i > Len(sorted_nodes) THEN <<>>
    ELSE _convert_node(g.nodes[sorted_nodes[i]]) \o ConvertNodes(g, sorted_nodes, i + 1)

\* NodeConverter.convert: exc is the exception raised ("" when the call returned),
\* nodes the traversal order, steps the returned list.
ConvertOutcome(exc, message, nodes, stepList) ==
    [exc |-> exc, message |-> message, nodes |-> nodes, steps |-> stepList]

convert(g) ==
    IF _validate_graph(g) # ""
    THEN ConvertOutcome("GraphValidationError", _validate_graph(g), <<>>, <<>>)
    ELSE IF _find_start_node(g) = None
    THEN ConvertOutcome("GraphValidationError", "No Start node found in graph", <<>>, <<>>)
    ELSE LET sorted_nodes == _topological_sort(g, _find_start_node(g)) IN
         ConvertOutcome("", "", sorted_nodes, ConvertNodes(g, sorted_nodes, 1))

\* A convert call followed statement by statement: pc is the statement the call
\* is at ("idle" before the call, "returned" / "raised" after it), failures the
\* GraphValidationErrors raised so far, sorted_nodes / i / steps the locals of
\* the conversion loop.
Run(pc, failures, sorted_nodes, i, stepList) ==
    [pc |-> pc, failures |-> failures, sorted_nodes |-> sorted_nodes, i |-> i,
     steps |-> stepList]

IdleRun == Run("idle", <<>>, <<>>, None, <<>>)

\* The local variables of a get_execution_order call, and the position in it.
Kahn(pc, in_degree, queue, result) ==
    [pc |-> pc, in_degree |-> in_degree, queue |-> queue, result |-> result]

IdleKahn == Kahn("idle", <<>>, <<>>, <<>>)

\* The local variables of a traversal: kind names the traversal, i is the index
\* of the `for node in graph.nodes` loop, stack the pending dfs calls (the node,
\* the path and the index of the next successor of each), queue the breadth-first
\* queue, visited the set `visited` / `reachable`, result the value returned, and
\* processed the ids in the order they were marked visited.
Walk(pc, kind, i, stack, queue, visited, rec_stack, result, processed) ==
    [pc |-> pc, kind |-> kind, i |-> i, stack |-> stack, queue |-> queue,
     visited |-> visited, rec_stack |-> rec_stack, result |-> result,
     processed |-> processed]

IdleWalk == Walk("idle", "", None, <<>>, <<>>, {}, {}, <<>>, <<>>)

(***************************************************************************)
(* The graphs the operations are applied to.                               *)
(*                                                                         *)
(* The code treats ids as opaque, so the node ids are taken up to          *)
(* renaming: the first node has id 1 and each later node repeats an id     *)
(* already used or takes the next unused one.  Edge endpoints range over   *)
(* all of Ids, so an edge may name an id no node carries.                  *)
(***************************************************************************)
MaxOf(S) == IF S = {} THEN 0 ELSE CHOOSE m \in S : \A x \in S : x <= m

IdSeqs(n) ==
    {f \in [1..n -> Ids] : \A i \in 1..n : f[i] <= 1 + MaxOf({f[j] : j \in 1..(i - 1)})}

NodeSeqs(choices, n) ==
    {[i \in 1..n |-> Node(ids[i], cs[i].type, cs[i].parameters)] :
        ids \in IdSeqs(n), cs \in [1..n -> choices]}

\* A node choice: a type with the parameter values supplied for it.
Choice(type, parameters) == [type |-> type, parameters |-> parameters]

\* Edges between exec ports, each with its own id.
ExecEdgeSeqs(n) ==
    {[i \in 1..n |-> Edge(i, src[i], "out", tgt[i], "in")] :
        src \in [1..n -> Ids], tgt \in [1..n -> Ids]}

GraphsOf(nodeSeqs, edgeSeqs) == {NodeGraph(ns, es) : ns \in nodeSeqs, es \in edgeSeqs}

\* "Widget" is a type that is neither in the registry nor in the handler table.
\* Start, End and LinearMove need no parameter value.
StructuralChoices == {Choice(t, NoParams) : t \in {"Start", "End", "LinearMove", "Widget"}}

(***************************************************************************)
(* Specification Spec: a graph, and the three entry points called on it.   *)
(***************************************************************************)
Init ==
    /\ graph \in
          GraphsOf(UNION {NodeSeqs(StructuralChoices, n) : n \in 0..MaxNodes},
                   UNION {ExecEdgeSeqs(n) : n \in 0..MaxEdges})
    /\ report = <<>>
    /\ order = <<>>
    /\ steps = <<>>
    /\ resultObject = GraphValidationResult(TRUE)
    /\ run = IdleRun
    /\ kahn = IdleKahn
    /\ walk = IdleWalk

Validate ==
    /\ Len(report) = 0
    /\ \E so \in SetOrders(graph) : report' = Append(report, validate(graph, so))
    /\ UNCHANGED <<graph, order, steps, resultObject, run, kahn, walk>>

\* Mutant: Kahn's algorithm in the variant that deletes the edges from the graph.
GetExecutionOrder_removes_edges ==
    /\ order = <<>>
    /\ order' = <<get_execution_order(graph)>>
    /\ graph' = [graph EXCEPT !.edges = <<>>]
    /\ UNCHANGED <<report, steps, resultObject, run, kahn, walk>>

GetExecutionOrder ==
    /\ order = <<>>
    /\ order' = <<get_execution_order(graph)>>
    /\ UNCHANGED <<graph, report, steps, resultObject, run, kahn, walk>>

Convert ==
    /\ steps = <<>>
    /\ steps' = <<convert(graph)>>
    /\ UNCHANGED <<graph, report, order, resultObject, run, kahn, walk>>

Next == Validate \/ GetExecutionOrder \/ Convert

Spec == Init /\ [][Next]_vars

(***************************************************************************)
(* Graph-theoretic notions the properties are stated with.                 *)
(***************************************************************************)
\* The ids one edge away from the ids of S.
SuccessorsOf(g, S) == {g.edges[i].target : i \in {j \in 1..Len(g.edges) : g.edges[j].source \in S}}

RECURSIVE Closure(_, _)
Closure(g, S) ==
    LET T == S \union SuccessorsOf(g, S) IN IF T = S THEN S ELSE Closure(g, T)

\* The ids reachable from x along one or more edges / zero or more edges.
ReachPlus(g, x) == Closure(g, SuccessorsOf(g, {x}))
ReachStar(g, x) == Closure(g, {x})

EdgeEnds(g) == UNION {{g.edges[i].source, g.edges[i].target} : i \in 1..Len(g.edges)}

\* The successor relation (edge source -> target) has a directed cycle.
HasDirectedCycle(g) == \E x \in EdgeEnds(g) : x \in ReachPlus(g, x)

\* ... a directed cycle that can be reached from the id of a node of the node list.
HasListedCycle(g) ==
    \E n \in NodeIds(g) : \E x \in ReachStar(g, n) : x \in ReachPlus(g, x)

HasEdge(g, u, v) == \E i \in 1..Len(g.edges) : g.edges[i].source = u /\ g.edges[i].target = v

StartCount(g) == Cardinality({i \in 1..Len(g.nodes) : g.nodes[i].type = "Start"})

\* The report of the latest validate call, the outcomes of the other two calls.
Validated == report # <<>>
LastReport == report[Len(report)]
Ordered == order # <<>>
Converted == steps # <<>>

HasError(r, P(_)) == \E i \in 1..Len(r.errors) : P(r.errors[i])
HasWarning(r, P(_)) == \E i \in 1..Len(r.warnings) : P(r.warnings[i])

(***************************************************************************)
(* C1: whenever validate(G) returned a report with is_valid = TRUE (no     *)
(* errors), convert(G) returns a step sequence and does not raise          *)
(* GraphValidationError.                                                   *)
(***************************************************************************)
C1_ValidGraphConverts ==
    (Validated /\ Converted /\ LastReport.exc = "" /\ LastReport.is_valid)
        => (steps[1].exc = "" /\ steps[1].exc # "GraphValidationError")

C1_Witness ==
    /\ Validated /\ Converted
    /\ LastReport.exc = "" /\ LastReport.is_valid
    /\ steps[1].exc = "" /\ Len(steps[1].steps) >= 2

(***************************************************************************)
(* C2: whenever validate(G) reported zero errors, get_execution_order(G)   *)
(* returns without raising, and its list contains every node of G.         *)
(***************************************************************************)
C2_ValidGraphOrders ==
    (Validated /\ Ordered /\ LastReport.exc = "" /\ Len(LastReport.errors) = 0)
        => /\ order[1].exc = ""
           /\ SeqRange(order[1].nodes) = 1..Len(graph.nodes)

C2_Witness ==
    /\ Validated /\ Ordered
    /\ LastReport.exc = "" /\ Len(LastReport.errors) = 0
    /\ order[1].exc = "" /\ Len(order[1].nodes) = MaxNodes

(***************************************************************************)
(* C3: for every graph with exactly one Start node and no directed cycle,  *)
(* get_execution_order returns a permutation of all nodes (each exactly    *)
(* once) in which, for every edge u -> v, u comes before v.                *)
(***************************************************************************)
IsTopologicalOrder(g, nodeList) ==
    /\ Len(nodeList) = Len(g.nodes)
    /\ SeqRange(nodeList) = 1..Len(g.nodes)
    /\ \A i, j \in 1..Len(nodeList) :
          HasEdge(g, g.nodes[nodeList[i]].id, g.nodes[nodeList[j]].id) => i < j

C3_OrderIsTopological ==
    (Ordered /\ StartCount(graph) = 1 /\ ~HasDirectedCycle(graph))
        => (order[1].exc = "" /\ IsTopologicalOrder(graph, order[1].nodes))

(***************************************************************************)
(* C4: for every graph whose successor relation has a directed cycle,      *)
(* validate returns is_valid = FALSE with a cycle error whose details hold *)
(* a chain of at least 2 ids, consecutive ids joined by an edge, the last  *)
(* equal to the first.                                                     *)
(***************************************************************************)
IsCycleChain(g, chain) ==
    /\ Len(chain) >= 2
    /\ chain[Len(chain)] = chain[1]
    /\ \A i \in 1..(Len(chain) - 1) : HasEdge(g, chain[i], chain[i + 1])

ReportsCycle(g, r) ==
    LET cyc(e) == e.message.fmt = "Graph contains a cycle" /\ IsCycleChain(g, e.details.ns)
    IN r.exc = "" /\ ~r.is_valid /\ HasError(r, cyc)

\* The claim as written: any directed cycle of the successor relation.
C4_AnyCycleReported ==
    (Validated /\ HasDirectedCycle(graph)) => ReportsCycle(graph, LastReport)

\* C4 as amended: a directed cycle that can be reached from a node of the node
\* list (in particular every cycle through a listed node) is reported so.
C4_ListedCycleReported ==
    (Validated /\ HasListedCycle(graph)) => ReportsCycle(graph, LastReport)

\* A cycle of two listed nodes entered from a third id, reported.
C4_Witness ==
    /\ Validated /\ HasListedCycle(graph)
    /\ \E x \in NodeIds(graph) : x \in ReachPlus(graph, x) /\ ~HasEdge(graph, x, x)
    /\ ReportsCycle(graph, LastReport)

(***************************************************************************)
(* C5: every node that has no incoming edges and is not the Start node     *)
(* gets an "unreachable from Start" warning, and that finding is never     *)
(* recorded as an error.                                                   *)
(***************************************************************************)
NoIncoming(g, node_id) == \A i \in 1..Len(g.edges) : g.edges[i].target # node_id

UnreachableWarned(r, node_id) ==
    LET unr(e) == e.message.fmt = "Node is unreachable from Start" /\ e.node_id = node_id
    IN r.exc = "" /\ HasWarning(r, unr) /\ ~HasError(r, unr)

\* The claim as written: in every graph.
C5_NoIncomingWarned ==
    Validated =>
        \A i \in 1..Len(graph.nodes) :
            (graph.nodes[i].type # "Start" /\ NoIncoming(graph, graph.nodes[i].id))
                => UnreachableWarned(LastReport, graph.nodes[i].id)

\* C5 as amended: in every graph with exactly one Start node, every node that
\* has no incoming edges and whose id is not the Start node's id gets the warning,
\* never an error.
C5_NoIncomingWarnedOneStart ==
    (Validated /\ StartCount(graph) = 1) =>
        \A i \in 1..Len(graph.nodes) :
            (/\ graph.nodes[i].id # graph.nodes[_find_start_node(graph)].id
             /\ NoIncoming(graph, graph.nodes[i].id))
                => UnreachableWarned(LastReport, graph.nodes[i].id)

C5_Witness ==
    /\ Validated /\ StartCount(graph) = 1
    /\ \E i \in 1..Len(graph.nodes) :
          /\ graph.nodes[i].id # graph.nodes[_find_start_node(graph)].id
          /\ NoIncoming(graph, graph.nodes[i].id)
          /\ UnreachableWarned(LastReport, graph.nodes[i].id)
    /\ Len(graph.edges) > 0

(***************************************************************************)
(* Specification SpecTwice: validate called repeatedly on the same,        *)
(* unmodified graph.                                                       *)
(***************************************************************************)
ValidateAgain ==
    /\ Len(report) < MaxCalls
    /\ \E so \in SetOrders(graph) : report' = Append(report, validate(graph, so))
    /\ UNCHANGED <<graph, order, steps, resultObject, run, kahn, walk>>

SpecTwice == Init /\ [][ValidateAgain]_vars

(***************************************************************************)
(* C6: two calls of validate on the same unmodified graph give reports     *)
(* with the same is_valid flag, the same multiset of errors and the same   *)
(* multiset of warnings.                                                   *)
(***************************************************************************)
SameMultiset(a, b) ==
    /\ Len(a) = Len(b)
    /\ \A x \in SeqRange(a) \union SeqRange(b) : Count(a, x) = Count(b, x)

SameUpToOrder(r1, r2) ==
    /\ r1.exc = r2.exc
    /\ r1.is_valid = r2.is_valid
    /\ SameMultiset(r1.errors, r2.errors)
    /\ SameMultiset(r1.warnings, r2.warnings)

C6_ValidateIdempotent ==
    \A i, j \in 1..Len(report) : SameUpToOrder(report[i], report[j])

\* Two calls whose reports list the same warnings in different orders.
C6_Witness ==
    /\ Len(report) = MaxCalls
    /\ report[1].warnings # report[2].warnings
    /\ SameUpToOrder(report[1], report[2])

(***************************************************************************)
(* Specification SpecReport: a GraphValidationResult created with          *)
(* is_valid=True (by its holder, or inside validate, which returns it) and *)
(* the add_error / add_warning calls made on it.                           *)
(***************************************************************************)
\* The arguments the add_* calls are made with.
EntryMessages == {Text("Error 1", "", <<>>), Text("Error 2", "", <<>>)}
EntryNodeIds == {None, 1}

InitReport ==
    /\ graph \in
          GraphsOf(UNION {NodeSeqs(StructuralChoices, n) : n \in 0..(MaxNodes - 1)},
                   UNION {ExecEdgeSeqs(n) : n \in 0..(MaxEdges - 1)})
    /\ report = <<>>
    /\ order = <<>>
    /\ steps = <<>>
    /\ resultObject = GraphValidationResult(TRUE)
    /\ run = IdleRun
    /\ kahn = IdleKahn
    /\ walk = IdleWalk

Entries(r) == Len(r.errors) + Len(r.warnings)

ValidateInto ==
    /\ resultObject = GraphValidationResult(TRUE)
    /\ \E so \in SetOrders(graph) : resultObject' = validate(graph, so)
    /\ UNCHANGED <<graph, report, order, steps, run, kahn, walk>>

AddError ==
    /\ Entries(resultObject) < MaxEntries
    /\ \E m \in EntryMessages, n \in EntryNodeIds :
          resultObject' = add_error(resultObject, m, n, None, NoText)
    /\ UNCHANGED <<graph, report, order, steps, run, kahn, walk>>

AddWarning ==
    /\ Entries(resultObject) < MaxEntries
    /\ \E m \in EntryMessages, n \in EntryNodeIds :
          resultObject' = add_warning(resultObject, m, n, None, NoText)
    /\ UNCHANGED <<graph, report, order, steps, run, kahn, walk>>

NextReport == ValidateInto \/ AddError \/ AddWarning

SpecReport == InitReport /\ [][NextReport]_vars

(***************************************************************************)
(* C7: in a report created with is_valid=True, as validate returns it and  *)
(* after any add_error / add_warning calls, is_valid is true exactly when  *)
(* the errors list is empty; add_error sets is_valid to false, it never    *)
(* becomes true again, and add_warning leaves is_valid and the errors      *)
(* unchanged.                                                              *)
(***************************************************************************)
C7_ValidityTracksErrors ==
    /\ [](resultObject.is_valid <=> (resultObject.errors = <<>>))
    /\ [][/\ ~resultObject.is_valid => ~resultObject'.is_valid
          /\ AddError => ~resultObject'.is_valid
          /\ AddWarning => /\ resultObject'.is_valid = resultObject.is_valid
                           /\ resultObject'.errors = resultObject.errors]_vars

\* A report validate returned as valid with a warning, then given an error.
C7_Witness ==
    /\ ~resultObject.is_valid
    /\ Len(resultObject.errors) = 1
    /\ resultObject.errors[1].message \in EntryMessages
    /\ Len(resultObject.warnings) >= 1
    /\ resultObject.warnings[1].message \notin EntryMessages

(***************************************************************************)
(* Specification SpecMalformed: validate on graphs with every kind of      *)
(* defect: no nodes, repeated node and edge ids, an unknown type, edges    *)
(* naming ids and ports that do not exist, cycles, SetHotend nodes with a  *)
(* missing or out-of-range temperature.                                    *)
(***************************************************************************)
HotendParams(temperature) == ("temperature" :> IntV(temperature)) @@ ("wait" :> BoolV(FALSE))

MalformedChoices ==
    {Choice("Start", NoParams), Choice("Widget", NoParams),
     Choice("SetHotend", "wait" :> BoolV(FALSE))}
    \union {Choice("SetHotend", HotendParams(t)) : t \in {200, 500, -5}}

\* Edges whose ids may repeat and whose ports may not exist.
AnyEdgeSeqs(n) ==
    {[i \in 1..n |-> Edge(ids[i], src[i], sp[i], tgt[i], tp[i])] :
        ids \in {f \in [1..n -> 1..MaxEdges] :
                    \A i \in 1..n : f[i] <= 1 + MaxOf({f[j] : j \in 1..(i - 1)})},
        src \in [1..n -> Ids], sp \in [1..n -> {"out", "nope"}],
        tgt \in [1..n -> Ids], tp \in [1..n -> {"in", "nope"}]}

InitMalformed ==
    /\ graph \in
          GraphsOf(UNION {NodeSeqs(MalformedChoices, n) : n \in 0..(MaxNodes - 1)},
                   UNION {AnyEdgeSeqs(n) : n \in 0..MaxEdges})
    /\ report = <<>>
    /\ order = <<>>
    /\ steps = <<>>
    /\ resultObject = GraphValidationResult(TRUE)
    /\ run = IdleRun
    /\ kahn = IdleKahn
    /\ walk = IdleWalk

SpecMalformed == InitMalformed /\ [][Validate]_vars

(***************************************************************************)
(* C8: validate never raises, whatever the graph; every defect (empty      *)
(* graph, duplicate ids, unknown node type, edge naming a non-existent     *)
(* node or port, cycle, missing or out-of-range parameter) is an entry of  *)
(* the returned report.                                                    *)
(***************************************************************************)
ErrorWith(r, fmts, node_id, edge_id) ==
    LET hit(e) == e.message.fmt \in fmts /\ e.node_id = node_id /\ e.edge_id = edge_id
    IN HasError(r, hit)

PortIds(ports) == {ports[i].id : i \in 1..Len(ports)}

\* The type of the node an id resolves to (the first node carrying it).
TypeOf(g, node_id) == g.nodes[CHOOSE i \in 1..Len(g.nodes) :
                                 g.nodes[i].id = node_id
                                 /\ \A j \in 1..(i - 1) : g.nodes[j].id # node_id].type

EdgeResolved(g, e) == e.source \in NodeIds(g) /\ e.target \in NodeIds(g)

\* An edge between two nodes of known types that names a port its node type lacks.
BadPort(g, e) ==
    /\ EdgeResolved(g, e)
    /\ TypeOf(g, e.source) \in DOMAIN NODE_REGISTRY
    /\ TypeOf(g, e.target) \in DOMAIN NODE_REGISTRY
    /\ \/ e.source_port \notin PortIds(NODE_REGISTRY[TypeOf(g, e.source)].outputs)
       \/ e.target_port \notin PortIds(NODE_REGISTRY[TypeOf(g, e.target)].inputs)

DefectsReported(g, r) ==
    /\ Len(g.nodes) = 0 => ErrorWith(r, {"Graph is empty"}, None, None)
    /\ \A i, j \in 1..Len(g.nodes) :
          (i # j /\ g.nodes[i].id = g.nodes[j].id)
              => ErrorWith(r, {"Duplicate node ID: {dup_id}"}, g.nodes[i].id, None)
    /\ \A i, j \in 1..Len(g.edges) :
          (i # j /\ g.edges[i].id = g.edges[j].id)
              => ErrorWith(r, {"Duplicate edge ID: {dup_id}"}, None, g.edges[i].id)
    /\ \A i \in 1..Len(g.nodes) :
          g.nodes[i].type \notin DOMAIN NODE_REGISTRY
              => ErrorWith(r, {"Unknown node type: {node.type}"}, g.nodes[i].id, None)
    /\ \A i \in 1..Len(g.edges) :
          ~EdgeResolved(g, g.edges[i])
              => ErrorWith(r, {"Edge references non-existent source node: {edge.source}",
                               "Edge references non-existent target node: {edge.target}"},
                           None, g.edges[i].id)
    /\ \A i \in 1..Len(g.edges) :
          BadPort(g, g.edges[i])
              => ErrorWith(r, {"Source node does not have output port '{edge.source_port}'",
                               "Target node does not have input port '{edge.target_port}'"},
                           None, g.edges[i].id)
    /\ HasListedCycle(g) => ErrorWith(r, {"Graph contains a cycle"}, None, None)
    /\ \A i \in 1..Len(g.nodes) :
          g.nodes[i].type \in DOMAIN NODE_REGISTRY =>
              \A k \in 1..Len(NODE_REGISTRY[g.nodes[i].type].parameters) :
                  LET pd == NODE_REGISTRY[g.nodes[i].type].parameters[k]
                      given == pd.id \in DOMAIN g.nodes[i].parameters
                  IN /\ (pd.required /\ ~given)
                         => ErrorWith(r, {"{label} is required"}, g.nodes[i].id, None)
                     /\ (given /\ pd.has_max /\ g.nodes[i].parameters[pd.id].i > pd.max_value)
                         => ErrorWith(r, {"{label} must be <= {max_value}"}, g.nodes[i].id, None)
                     /\ (given /\ pd.has_min /\ g.nodes[i].parameters[pd.id].i < pd.min_value)
                         => ErrorWith(r, {"{label} must be >= {min_value}"}, g.nodes[i].id, None)

C9_OrderRejects ==
    (Ordered /\ (StartCount(graph) # 1 \/ \E x \in NodeIds(graph) : x \in ReachPlus(graph, x)))
        => (order[1].exc = "ValueError" /\ order[1].nodes = <<>>)

(***************************************************************************)
(* C10: convert fails with GraphValidationError, producing no step, when   *)
(* the graph has no Start node (the empty graph included), when it         *)
(* contains a directed cycle, or when a node's type has no handler.        *)
(***************************************************************************)
ConvertRejects ==
    /\ steps[1].exc = "GraphValidationError"
    /\ steps[1].steps = <<>>
    /\ steps[1].nodes = <<>>

Unhandled(g) == \E i \in 1..Len(g.nodes) : g.nodes[i].type \notin node_handlers

\* The claim as written: any directed cycle of the successor relation.
C10_ConvertRejects ==
    (Converted /\ (StartCount(graph) = 0 \/ HasDirectedCycle(graph) \/ Unhandled(graph)))
        => ConvertRejects

\* C10 as amended: the cycle is one that can be reached from a node of the node list.
C10_ConvertRejectsListed ==
    (Converted /\ (StartCount(graph) = 0 \/ HasListedCycle(graph) \/ Unhandled(graph)))
        => ConvertRejects

\* A graph with a Start node and known types only, rejected for its cycle.
C10_Witness ==
    /\ Converted /\ ConvertRejects
    /\ StartCount(graph) = 1 /\ ~Unhandled(graph)
    /\ HasListedCycle(graph)
    /\ steps[1].message = "Graph contains cycles"

(***************************************************************************)
(* Specification SpecConverge: convert on graphs with enough edges for     *)
(* paths to converge on a node (s -> a, s -> b, a -> b).                   *)
(***************************************************************************)
MaxConvergeEdges == 3

ConvergeChoices == {Choice(t, NoParams) : t \in {"Start", "End", "LinearMove"}}

InitConverge ==
    /\ graph \in
          GraphsOf(UNION {NodeSeqs(ConvergeChoices, n) : n \in 0..MaxNodes},
                   UNION {ExecEdgeSeqs(n) : n \in 0..MaxConvergeEdges})
    /\ report = <<>>
    /\ order = <<>>
    /\ steps = <<>>
    /\ resultObject = GraphValidationResult(TRUE)
    /\ run = IdleRun
    /\ kahn = IdleKahn
    /\ walk = IdleWalk

SpecConverge == InitConverge /\ [][Convert]_vars

\* The index of the node an id resolves to: the first node carrying it.
Resolve(g, node_id) ==
    CHOOSE i \in 1..Len(g.nodes) :
        g.nodes[i].id = node_id /\ \A j \in 1..(i - 1) : g.nodes[j].id # node_id

MinOf(S) == CHOOSE m \in S : \A x \in S : m <= x

\* The edges that lead from id u to the id of a listed node outside seen.
NewEdges(g, u, seen) ==
    {i \in 1..Len(g.edges) :
        g.edges[i].source = u /\ g.edges[i].target \in NodeIds(g) \ seen}

\* ids is the breadth-first order of first dequeue from start: it begins with
\* start, each later id is the first not yet listed successor (in edge order) of
\* the earliest listed id that has one, and it stops only when none is left.
IsFirstDequeueOrder(g, start, ids) ==
    /\ Len(ids) >= 1 /\ ids[1] = start
    /\ \A k \in 2..Len(ids) :
          LET seen == {ids[j] : j \in 1..(k - 1)}
              P == {p \in 1..(k - 1) : NewEdges(g, ids[p], seen) # {}}
          IN P # {} /\ ids[k] = g.edges[MinOf(NewEdges(g, ids[MinOf(P)], seen))].target
    /\ \A p \in 1..Len(ids) : NewEdges(g, ids[p], {ids[j] : j \in 1..Len(ids)}) = {}

\* The ids reachable from S along edges through listed nodes only.
RECURSIVE ListedClosure(_, _)
ListedClosure(g, S) ==
    LET T == S \union (SuccessorsOf(g, S) \cap NodeIds(g))
    IN IF T = S THEN S ELSE ListedClosure(g, T)

StartId(g) == g.nodes[MinOf({i \in 1..Len(g.nodes) : g.nodes[i].type = "Start"})].id

\* The number of edges into id v from the ids of S.
EdgesInto(g, S, v) ==
    Cardinality({i \in 1..Len(g.edges) : g.edges[i].source \in S /\ g.edges[i].target = v})

(***************************************************************************)
(* C11: when convert returns, every node reachable from Start, by however  *)
(* many paths, is converted exactly once, at the position of its first     *)
(* dequeue in the breadth-first traversal; and a graph without a directed  *)
(* cycle is never rejected as cyclic.                                      *)
(***************************************************************************)
C11_ConvergenceConvertedOnce ==
    Converted =>
        /\ ~HasDirectedCycle(graph) => steps[1].message # "Graph contains cycles"
        /\ steps[1].exc = "" =>
              LET nodeList == steps[1].nodes
                  ids == [k \in 1..Len(nodeList) |-> graph.nodes[nodeList[k]].id]
              IN /\ \A k \in 1..Len(nodeList) : nodeList[k] = Resolve(graph, ids[k])
                 /\ \A j, k \in 1..Len(nodeList) : j # k => nodeList[j] # nodeList[k]
                 /\ {ids[k] : k \in 1..Len(ids)} = ListedClosure(graph, {StartId(graph)})
                 /\ IsFirstDequeueOrder(graph, StartId(graph), ids)

\* s -> a, s -> b, a -> b with distinct ids: b is reached by two paths, the graph
\* is accepted and b is converted once.
C11_Witness ==
    /\ Converted /\ steps[1].exc = ""
    /\ ~HasDirectedCycle(graph)
    /\ Len(steps[1].nodes) = 3
    /\ \E b \in NodeIds(graph) :
          /\ b # StartId(graph)
          /\ EdgesInto(graph, {StartId(graph)}, b) = 1
          /\ EdgesInto(graph, NodeIds(graph) \ {StartId(graph), b}, b) = 1
          /\ Count([k \in 1..3 |-> graph.nodes[steps[1].nodes[k]].id], b) = 1

(***************************************************************************)
(* Specification SpecSteps: convert on graphs whose nodes take every type  *)
(* of the handler table.                                                   *)
(***************************************************************************)
HandledChoices == {Choice(t, NoParams) : t \in node_handlers}

\* Nodes with the distinct ids 1..n.
UniqueNodeSeqs(choices, n) ==
    {[i \in 1..n |-> Node(i, cs[i].type, cs[i].parameters)] : cs \in [1..n -> choices]}

InitSteps ==
    /\ graph \in
          GraphsOf(UNION {UniqueNodeSeqs(HandledChoices, n) : n \in 0..MaxNodes},
                   UNION {ExecEdgeSeqs(n) : n \in 0..MaxEdges})
    /\ report = <<>>
    /\ order = <<>>
    /\ steps = <<>>
    /\ resultObject = GraphValidationResult(TRUE)
    /\ run = IdleRun
    /\ kahn = IdleKahn
    /\ walk = IdleWalk

SpecSteps == InitSteps /\ [][Convert]_vars

\* The number of steps a node of a type contributes, as the claim states it.
StepCount(type) == IF type = "Start" THEN 0 ELSE IF type = "ExtrudeMove" THEN 2 ELSE 1

RECURSIVE StepsBefore(_, _, _)
StepsBefore(g, nodeList, k) ==
    IF k <= 1 THEN 0
    ELSE StepsBefore(g, nodeList, k - 1) + StepCount(g.nodes[nodeList[k - 1]].type)

VisitedOfType(g, nodeList, type) ==
    Cardinality({k \in 1..Len(nodeList) : g.nodes[nodeList[k]].type = type})

(***************************************************************************)
(* C12: when convert succeeds, the returned steps are the concatenation,   *)
(* in traversal order, of each visited node's step list: none for Start,   *)
(* extruder-on then a position step for ExtrudeMove, exactly one for every *)
(* other type; the length is visited - visited Start + visited ExtrudeMove.*)
(***************************************************************************)
C12_StepsConcatenated ==
    (Converted /\ steps[1].exc = "") =>
        LET nodeList == steps[1].nodes
            out == steps[1].steps
        IN /\ Len(out) = Len(nodeList) - VisitedOfType(graph, nodeList, "Start")
                            + VisitedOfType(graph, nodeList, "ExtrudeMove")
           /\ Len(out) = StepsBefore(graph, nodeList, Len(nodeList) + 1)
           /\ \A k \in 1..Len(nodeList) :
                 LET node == graph.nodes[nodeList[k]]
                     from == StepsBefore(graph, nodeList, k)
                 IN /\ Len(_convert_node(node)) = StepCount(node.type)
                    /\ \A j \in 1..StepCount(node.type) : out[from + j] = _convert_node(node)[j]
                    /\ node.type = "ExtrudeMove" =>
                          /\ out[from + 1] = Step("Extruder", <<BoolV(TRUE)>>)
                          /\ out[from + 2].cls = "Point"

\* Start -> ExtrudeMove -> a third node: three visited nodes, three steps.
C12_Witness ==
    /\ Converted /\ steps[1].exc = ""
    /\ Len(steps[1].nodes) = 3
    /\ graph.nodes[steps[1].nodes[1]].type = "Start"
    /\ graph.nodes[steps[1].nodes[2]].type = "ExtrudeMove"
    /\ graph.nodes[steps[1].nodes[3]].type \notin {"Start", "ExtrudeMove"}
    /\ Len(steps[1].steps) = 3
    /\ steps[1].steps[1].cls = "Extruder"

(***************************************************************************)
(* C13: for the graph {Start s, End e; edge s.out -> e.in}, validate       *)
(* returns is_valid = TRUE with no error and no warning, and convert       *)
(* returns one step, End's finalize step.                                  *)
(***************************************************************************)
\* Scenario A, with s = 1 and e = 2.
ScenarioA ==
    NodeGraph(<<Node(1, "Start", NoParams), Node(2, "End", NoParams)>>,
              <<Edge(1, 1, "out", 2, "in")>>)

C13_ScenarioA ==
    graph = ScenarioA =>
        /\ Validated =>
              /\ LastReport.exc = "" /\ LastReport.is_valid
              /\ LastReport.errors = <<>> /\ LastReport.warnings = <<>>
        /\ Converted =>
              /\ steps[1].exc = ""
              /\ steps[1].steps = <<Step("GcodeComment", <<StrV("End of print")>>)>>

C13_Witness ==
    /\ graph = ScenarioA /\ Validated /\ Converted
    /\ LastReport.is_valid /\ Len(steps[1].steps) = 1

(***************************************************************************)
(* Specification SpecLoop: the three entry points on graphs of a Start     *)
(* node and two Home / Comment / End nodes, with or without their          *)
(* parameter values, joined by three edges.                                *)
(***************************************************************************)
LoopChoices ==
    {Choice("Home", NoParams), Choice("Home", "axes" :> StrV("XYZ")),
     Choice("Comment", NoParams), Choice("Comment", "text" :> StrV("t")),
     Choice("End", NoParams)}

InitLoop ==
    /\ graph \in
          {NodeGraph(<<Node(1, "Start", NoParams)>> \o ns, es) :
              ns \in {[i \in 1..2 |-> Node(i + 1, cs[i].type, cs[i].parameters)] :
                          cs \in [1..2 -> LoopChoices]},
              es \in ExecEdgeSeqs(MaxConvergeEdges)}
    /\ report = <<>>
    /\ order = <<>>
    /\ steps = <<>>
    /\ resultObject = GraphValidationResult(TRUE)
    /\ run = IdleRun
    /\ kahn = IdleKahn
    /\ walk = IdleWalk

SpecLoop == InitLoop /\ [][Next]_vars

\* Scenario C, with s = 1, h1 = 2, h2 = 3.
ScenarioC ==
    NodeGraph(<<Node(1, "Start", NoParams), Node(2, "Home", NoParams),
                Node(3, "Comment", "text" :> StrV("t"))>>,
              <<Edge(1, 1, "out", 2, "in"), Edge(2, 2, "out", 3, "in"),
                Edge(3, 3, "out", 2, "in")>>)

\* chain is a rotation of the cycle h1 -> h2 -> h1.
IsScenarioCChain(chain) == chain \in {<<2, 3, 2>>, <<3, 2, 3>>}

CycleErrors(r) == {i \in 1..Len(r.errors) : r.errors[i].message.fmt = "Graph contains a cycle"}

(***************************************************************************)
(* C14: for the graph {Start s, Home h1 without parameter values, Comment  *)
(* h2 with text "t"; s -> h1, h1 -> h2, h2 -> h1}, validate returns        *)
(* is_valid = FALSE with one error, which holds the cycle chain            *)
(* h1 -> h2 -> h1 or a rotation of it.                                     *)
(***************************************************************************)
\* The claim as written: the cycle error is the only error.
C14_ScenarioCOneError ==
    (graph = ScenarioC /\ Validated) =>
        /\ LastReport.exc = "" /\ ~LastReport.is_valid
        /\ Len(LastReport.errors) = 1
        /\ CycleErrors(LastReport) = {1}
        /\ IsScenarioCChain(LastReport.errors[1].details.ns)

\* C14 as amended: two errors, "Axes is required" on h1 (Home declares axes
\* required and no value is supplied) and one cycle error with the chain.
C14_ScenarioCCycleAndAxes ==
    (graph = ScenarioC /\ Validated) =>
        /\ LastReport.exc = "" /\ ~LastReport.is_valid
        /\ Len(LastReport.errors) = 2
        /\ Cardinality(CycleErrors(LastReport)) = 1
        /\ \A i \in CycleErrors(LastReport) : LastReport.errors[i].details.ns = <<2, 3, 2>>
        /\ \E i \in 1..2 :
              /\ LastReport.errors[i].message = Text("{label} is required", "Axes", <<>>)
              /\ LastReport.errors[i].node_id = 2

C14_Witness ==
    /\ graph = ScenarioC /\ Validated
    /\ Len(LastReport.errors) = 2
    /\ CycleErrors(LastReport) # {}

(***************************************************************************)
(* C15: validate, get_execution_order and convert leave the graph as it    *)
(* was: whether the call returns or raises, the node list, the edge list   *)
(* (order included) and every node's parameters are the same after it.     *)
(***************************************************************************)
C15_GraphUnchanged == [][graph' = graph]_vars

\* All three calls made on a graph with parameter values, two of them failing.
C15_Witness ==
    /\ Validated /\ Ordered /\ Converted
    /\ order[1].exc = "ValueError" /\ steps[1].exc = "GraphValidationError"
    /\ \E i \in 1..Len(graph.nodes) : graph.nodes[i].parameters # NoParams
    /\ Len(graph.edges) = MaxConvergeEdges

(***************************************************************************)
(* Specification SpecBounds: validate on graphs of a Start node and up to  *)
(* two nodes of the types with a bounded integer parameter, the value at,  *)
(* next to and far from each declared bound, or missing, and at most one   *)
(* edge.                                                                   *)
(***************************************************************************)
BoundedTypes == {"SetHotend", "WaitHotend", "SetBed", "WaitBed", "SetFan"}

\* The bounded integer parameter a type declares.
IntParamOf(type) ==
    LET ps == NODE_REGISTRY[type].parameters
    IN ps[CHOOSE k \in 1..Len(ps) : ps[k].param_type = "integer"]

WaitValue(type) == IF type \in {"SetHotend", "SetBed"} THEN "wait" :> BoolV(FALSE) ELSE NoParams

BoundaryValues(type) ==
    {IntParamOf(type).min_value - 1, IntParamOf(type).min_value,
     IntParamOf(type).max_value, IntParamOf(type).max_value + 1, 500}

BoundChoices ==
    {Choice(t, WaitValue(t)) : t \in BoundedTypes}
    \union UNION {{Choice(t, (IntParamOf(t).id :> IntV(v)) @@ WaitValue(t)) :
                      v \in BoundaryValues(t)} : t \in BoundedTypes}

InitBounds ==
    /\ graph \in
          {NodeGraph(<<Node(1, "Start", NoParams)>> \o ns, es) :
              ns \in UNION {{[i \in 1..n |-> Node(i + 1, cs[i].type, cs[i].parameters)] :
                                cs \in [1..n -> BoundChoices]} : n \in 1..(MaxNodes - 1)},
              es \in UNION {ExecEdgeSeqs(n) : n \in 0..(MaxEdges - 1)}}
    /\ report = <<>>
    /\ order = <<>>
    /\ steps = <<>>
    /\ resultObject = GraphValidationResult(TRUE)
    /\ run = IdleRun
    /\ kahn = IdleKahn
    /\ walk = IdleWalk

SpecBounds == InitBounds /\ [][Validate]_vars

\* The errors of r on a node about the parameter with that label.
ParamErrorsOn(r, node_id, label) ==
    {i \in 1..Len(r.errors) :
        /\ r.errors[i].node_id = node_id
        /\ r.errors[i].message.s = label
        /\ r.errors[i].message.fmt \in {"{label} is required", "{label} must be an integer",
                                        "{label} must be >= {min_value}",
                                        "{label} must be <= {max_value}"}}

\* Scenario D, with s = 1 and t = 2.
ScenarioD ==
    NodeGraph(<<Node(1, "Start", NoParams),
                Node(2, "SetHotend", ("temperature" :> IntV(500)) @@ ("wait" :> BoolV(FALSE)))>>,
              <<>>)

(***************************************************************************)
(* C16: an integer value v supplied for an integer parameter with declared *)
(* bounds min and max is accepted exactly when min <= v <= max; v < min is *)
(* rejected with "must be >= min", v > max with "must be <= max", and the  *)
(* rejection is an error of the report on the offending node (SetHotend    *)
(* with temperature 500: is_valid = FALSE, "must be <= 300" on that node). *)
(***************************************************************************)
\* ParameterDefinition.validate itself, on integer parameters with bounds
\* min <= max around zero and values inside and outside them.
BoundsVerdicts ==
    \A min \in -2..2 : \A max \in min..2 : \A v \in -3..3 :
        LET pd == ParameterDefinition("p", "P", "integer", TRUE, TRUE, min, TRUE, max, <<>>)
            res == ParamValidate(pd, IntV(v))
        IN /\ res.ok <=> (min <= v /\ v <= max)
           /\ v < min => res.error = Text("{label} must be >= {min_value}", "P", <<min>>)
           /\ v > max => res.error = Text("{label} must be <= {max_value}", "P", <<max>>)

C16_IntegerBounds ==
    Validated =>
        /\ BoundsVerdicts
        /\ \A i \in 1..Len(graph.nodes) :
              LET node == graph.nodes[i] IN
              (node.type \in BoundedTypes /\ IntParamOf(node.type).id \in DOMAIN node.parameters) =>
                  LET pd == IntParamOf(node.type)
                      v == node.parameters[pd.id].i
                      errs == ParamErrorsOn(LastReport, node.id, pd.label)
                  IN /\ (pd.min_value <= v /\ v <= pd.max_value) <=> errs = {}
                     /\ errs # {} => ~LastReport.is_valid
                     /\ v < pd.min_value =>
                           \E e \in errs : LastReport.errors[e].message =
                               Text("{label} must be >= {min_value}", pd.label, <<pd.min_value>>)
                     /\ v > pd.max_value =>
                           \E e \in errs : LastReport.errors[e].message =
                               Text("{label} must be <= {max_value}", pd.label, <<pd.max_value>>)
        /\ graph = ScenarioD =>
              /\ ~LastReport.is_valid
              /\ \E e \in 1..Len(LastReport.errors) :
                    /\ LastReport.errors[e].node_id = 2
                    /\ LastReport.errors[e].message =
                           Text("{label} must be <= {max_value}", "Temperature", <<300>>)

C16_Witness ==
    /\ graph = ScenarioD /\ Validated /\ ~LastReport.is_valid
    /\ ParamErrorsOn(LastReport, 2, "Temperature") # {}

\* A value on its upper bound is accepted.
C16_WitnessOnBound ==
    /\ Validated
    /\ \E i \in 1..Len(graph.nodes) :
          /\ graph.nodes[i].type = "SetFan"
          /\ "speed" \in DOMAIN graph.nodes[i].parameters
          /\ graph.nodes[i].parameters["speed"].i = 100
          /\ ParamErrorsOn(LastReport, graph.nodes[i].id, "Fan Speed") = {}

(***************************************************************************)
(* C17: validate records an error when the graph has no Start node, one    *)
(* error listing the ids of all Start nodes when it has more than one, and *)
(* nothing from the Start-count check when it has exactly one.             *)
(***************************************************************************)
\* The entries of a list that the Start-count check writes.
StartEntries(entries) ==
    {i \in 1..Len(entries) :
        entries[i].message.fmt \in {"Graph must have exactly one Start node",
                                    "Graph has multiple Start nodes ({len(start_nodes)})"}}

\* The ids of the Start nodes, in node-list order.
StartIds(g) ==
    LET isStart(n) == n.type = "Start"
        ns == SelectSeq(g.nodes, isStart)
    IN [i \in 1..Len(ns) |-> ns[i].id]

C17_StartCountChecked ==
    Validated =>
        LET errs == StartEntries(LastReport.errors) IN
        /\ LastReport.exc = ""
        /\ StartEntries(LastReport.warnings) = {}
        /\ StartCount(graph) = 0 =>
              /\ Cardinality(errs) = 1 /\ ~LastReport.is_valid
              /\ \A e \in errs : LastReport.errors[e].message.fmt
                                    = "Graph must have exactly one Start node"
        /\ StartCount(graph) = 1 => errs = {}
        /\ StartCount(graph) > 1 =>
              /\ Cardinality(errs) = 1 /\ ~LastReport.is_valid
              /\ \A e \in errs :
                    /\ LastReport.errors[e].message.ns = <<StartCount(graph)>>
                    /\ LastReport.errors[e].details.ns = StartIds(graph)

\* Two Start nodes with different ids, both listed in the one error.
C17_Witness ==
    /\ Validated /\ StartCount(graph) = 2
    /\ Cardinality({StartIds(graph)[i] : i \in 1..2}) = 2
    /\ \E e \in StartEntries(LastReport.errors) : LastReport.errors[e].details.ns = StartIds(graph)

(***************************************************************************)
(* C18: for every edge whose source or target id does not resolve to a     *)
(* node, validate records an error for the unresolved endpoint(s) with the *)
(* edge's id, and no port-existence or port-compatibility error for that   *)
(* edge.                                                                   *)
(***************************************************************************)
SourceFmt == "Edge references non-existent source node: {edge.source}"
TargetFmt == "Edge references non-existent target node: {edge.target}"

PortFmts ==
    {"Source node does not have output port '{edge.source_port}'",
     "Target node does not have input port '{edge.target_port}'",
     "Incompatible port types"}

\* An error with that message text, carrying the edge id and naming the node id.
EndpointError(r, fmt, edge_id, node_id) ==
    \E i \in 1..Len(r.errors) :
        /\ r.errors[i].message = Text(fmt, "", <<node_id>>)
        /\ r.errors[i].edge_id = edge_id

ErrorsOfEdge(r, fmts, edge_id) ==
    {i \in 1..Len(r.errors) : r.errors[i].message.fmt \in fmts /\ r.errors[i].edge_id = edge_id}

EdgesWithId(g, edge_id) == {i \in 1..Len(g.edges) : g.edges[i].id = edge_id}

\* The port checks write nothing for the unresolved edges: under each edge id
\* there are at most as many port errors as resolved edges carry that id.
NoPortErrorsForUnresolved(g, r) ==
    \A i \in 1..Len(g.edges) :
        Cardinality(ErrorsOfEdge(r, PortFmts, g.edges[i].id))
            <= Cardinality({j \in EdgesWithId(g, g.edges[i].id) : EdgeResolved(g, g.edges[j])})

PortChoices ==
    {Choice(t, NoParams) : t \in {"LinearMove", "End", "SetHotend", "Widget"}}

PortEdgeSeqs(n) ==
    {[i \in 1..n |-> Edge(i, src[i], sp[i], tgt[i], tp[i])] :
        src \in [1..n -> Ids], sp \in [1..n -> {"out", "position", "temp", "nope"}],
        tgt \in [1..n -> Ids], tp \in [1..n -> {"in", "nope"}]}

InitPorts ==
    /\ graph \in
          {NodeGraph(<<Node(1, "Start", NoParams)>> \o ns, es) :
              ns \in UNION {{[i \in 1..n |-> Node(i + 1, cs[i].type, cs[i].parameters)] :
                                cs \in [1..n -> PortChoices]} : n \in 1..(MaxNodes - 1)},
              es \in UNION {PortEdgeSeqs(n) : n \in 0..MaxEdges}}
    /\ report = <<>>
    /\ order = <<>>
    /\ steps = <<>>
    /\ resultObject = GraphValidationResult(TRUE)
    /\ run = IdleRun
    /\ kahn = IdleKahn
    /\ walk = IdleWalk

SpecPorts == InitPorts /\ [][Validate]_vars

\* The data kinds of PortType.
PortTypes == {"exec", "position", "number", "boolean", "string", "temperature", "any"}

\* The data kind of the port with that id.
PortKind(ports, port_id) ==
    ports[CHOOSE k \in 1..Len(ports) : ports[k].id = port_id].port_type

\* The compatibility test: the wildcard goes with everything, otherwise the
\* kinds must be equal; the answer does not depend on the order of the ports.
CompatibilityRule ==
    \A a, b \in PortTypes :
        LET pa == PortDefinition("a", "A", a, TRUE)
            pb == PortDefinition("b", "B", b, FALSE)
        IN /\ is_compatible(pa, pb) <=> (a = "any" \/ b = "any" \/ a = b)
           /\ is_compatible(pa, pb) <=> is_compatible(pb, pa)

\* Scenario E, with s = 1, m = 2, e = 3.
ScenarioE ==
    NodeGraph(<<Node(1, "Start", NoParams), Node(2, "LinearMove", NoParams),
                Node(3, "End", NoParams)>>,
              <<Edge(1, 1, "out", 2, "in"), Edge(2, 2, "position", 3, "in")>>)

(***************************************************************************)
(* C19: for every edge between two existing nodes of known types: a source *)
(* port that is not an output of the source type is an error; otherwise a  *)
(* target port that is not an input of the target type is an error;        *)
(* otherwise the edge gets "Incompatible port types" exactly when neither  *)
(* port's kind is the wildcard and the kinds differ.  A position output    *)
(* into a control-flow input is rejected, and the compatibility test is    *)
(* symmetric.                                                              *)
(***************************************************************************)
C19_PortChecks ==
    Validated =>
        /\ CompatibilityRule
        /\ \A i \in 1..Len(graph.edges) :
              LET e == graph.edges[i] IN
              (/\ EdgeResolved(graph, e)
               /\ TypeOf(graph, e.source) \in DOMAIN NODE_REGISTRY
               /\ TypeOf(graph, e.target) \in DOMAIN NODE_REGISTRY) =>
                  LET outs == NODE_REGISTRY[TypeOf(graph, e.source)].outputs
                      ins == NODE_REGISTRY[TypeOf(graph, e.target)].inputs
                      errs == ErrorsOfEdge(LastReport, PortFmts, e.id)
                      fmtOf(k) == LastReport.errors[k].message.fmt
                  IN IF e.source_port \notin PortIds(outs)
                     THEN /\ Cardinality(errs) = 1
                          /\ \A k \in errs :
                                fmtOf(k) = "Source node does not have output port '{edge.source_port}'"
                     ELSE IF e.target_port \notin PortIds(ins)
                     THEN /\ Cardinality(errs) = 1
                          /\ \A k \in errs :
                                fmtOf(k) = "Target node does not have input port '{edge.target_port}'"
                     ELSE LET a == PortKind(outs, e.source_port)
                              b == PortKind(ins, e.target_port)
                          IN /\ (a # "any" /\ b # "any" /\ a # b) <=> errs # {}
                             /\ Cardinality(errs) <= 1
                             /\ \A k \in errs : fmtOf(k) = "Incompatible port types"
        /\ graph = ScenarioE =>
              /\ ~LastReport.is_valid
              /\ \E k \in ErrorsOfEdge(LastReport, {"Incompatible port types"}, 2) :
                    LastReport.errors[k].details.s = "position"

C19_Witness ==
    /\ graph = ScenarioE /\ Validated /\ ~LastReport.is_valid
    /\ ErrorsOfEdge(LastReport, {"Incompatible port types"}, 2) # {}
    /\ ErrorsOfEdge(LastReport, PortFmts, 1) = {}

(***************************************************************************)
(* C20: for every node of a known type, each input port declared required  *)
(* that is the target port of no edge produces the error "Required input   *)
(* '<label>' is missing" on that node, and a required input port that is   *)
(* the target port of at least one edge produces no such error.            *)
(***************************************************************************)
\* Some edge of the graph targets that port of the node with that id.
IsTargetPort(g, node_id, port_id) ==
    \E j \in 1..Len(g.edges) : g.edges[j].target = node_id /\ g.edges[j].target_port = port_id

\* The (node, input port) pairs of the nodes carrying an id whose port has that
\* label, is required and is the target port of no edge.
MissingInputs(g, node_id, label) ==
    UNION {{<<i, k>> : k \in {k \in 1..Len(NODE_REGISTRY[g.nodes[i].type].inputs) :
                                 LET p == NODE_REGISTRY[g.nodes[i].type].inputs[k]
                                 IN /\ p.label = label /\ p.required
                                    /\ ~IsTargetPort(g, node_id, p.id)}} :
              i \in {i \in 1..Len(g.nodes) : /\ g.nodes[i].id = node_id
                                            /\ g.nodes[i].type \in DOMAIN NODE_REGISTRY}}

MissingInputErrors(r, node_id, label) ==
    {e \in 1..Len(r.errors) :
        /\ r.errors[e].message = Text("Required input '{label}' is missing", label, <<>>)
        /\ r.errors[e].node_id = node_id}

\* NodeDefinition.validate on a definition with a required and an optional
\* input: only the required one can be missing.
RequiredOnly ==
    LET def == NodeDefinition("T", <<PortDefinition("a", "A", "exec", TRUE),
                                     PortDefinition("b", "B", "any", FALSE)>>, <<>>, <<>>)
        missing(label) == Text("Required input '{label}' is missing", label, <<>>)
    IN \A inputs \in SUBSET {"a", "b", "c"} :
          NodeDefValidate(def, NoParams, inputs)
              = IF "a" \in inputs THEN <<>> ELSE <<missing("A")>>

C20_RequiredInputs ==
    Validated =>
        /\ RequiredOnly
        /\ \A i \in 1..Len(graph.nodes) :
              graph.nodes[i].type \in DOMAIN NODE_REGISTRY =>
                  \A k \in 1..Len(NODE_REGISTRY[graph.nodes[i].type].inputs) :
                      LET p == NODE_REGISTRY[graph.nodes[i].type].inputs[k]
                          id == graph.nodes[i].id
                      IN /\ Cardinality(MissingInputErrors(LastReport, id, p.label))
                                = Cardinality(MissingInputs(graph, id, p.label))
                         /\ (p.required /\ ~IsTargetPort(graph, id, p.id))
                                => MissingInputErrors(LastReport, id, p.label) # {}
                         /\ (p.required /\ IsTargetPort(graph, id, p.id))
                                => MissingInputErrors(LastReport, id, p.label) = {}

\* Two SetHotend nodes: one is the target of an edge on its port "in", the
\* other only of an edge on a port it does not have.
C20_Witness ==
    /\ Validated
    /\ \E i, j \in 1..Len(graph.nodes) :
          /\ graph.nodes[i].type = "SetHotend" /\ graph.nodes[j].type = "SetHotend"
          /\ IsTargetPort(graph, graph.nodes[i].id, "in")
          /\ MissingInputErrors(LastReport, graph.nodes[i].id, "In") = {}
          /\ IsTargetPort(graph, graph.nodes[j].id, "nope")
          /\ ~IsTargetPort(graph, graph.nodes[j].id, "in")
          /\ MissingInputErrors(LastReport, graph.nodes[j].id, "In") # {}

(***************************************************************************)
(* Specification SpecRun: one call of NodeConverter.convert(graph)         *)
(* followed statement by statement.  The call is sequential code, so once  *)
(* made it keeps running until it returns or raises (weak fairness).       *)
(***************************************************************************)
InitRun ==
    /\ graph \in
          GraphsOf(UNION {NodeSeqs(StructuralChoices, n) : n \in 0..MaxNodes},
                   UNION {ExecEdgeSeqs(n) : n \in 0..MaxEdges})
    /\ report = <<>>
    /\ order = <<>>
    /\ steps = <<>>
    /\ resultObject = GraphValidationResult(TRUE)
    /\ run = IdleRun
    /\ kahn = IdleKahn
    /\ walk = IdleWalk

\* The call is made.
ConvertCall ==
    /\ run.pc = "idle"
    /\ run' = [run EXCEPT !.pc = "validate_graph"]
    /\ UNCHANGED <<graph, report, order, steps, resultObject, kahn, walk>>

\* Mutant: a failed validation is tried once more before the call gives up.
RunValidateGraph_retry ==
    /\ run.pc = "validate_graph"
    /\ run' = IF _validate_graph(graph) # ""
              THEN [run EXCEPT !.pc = IF Len(run.failures) >= 1 THEN "raised" ELSE "validate_graph",
                               !.failures = Append(@, _validate_graph(graph))]
              ELSE [run EXCEPT !.pc = "find_start_node"]
    /\ UNCHANGED <<graph, report, order, steps, resultObject, kahn, walk>>

\* `self._validate_graph(graph)`
RunValidateGraph ==
    /\ run.pc = "validate_graph"
    /\ run' = IF _validate_graph(graph) # ""
              THEN [run EXCEPT !.pc = "raised", !.failures = Append(@, _validate_graph(graph))]
              ELSE [run EXCEPT !.pc = "find_start_node"]
    /\ UNCHANGED <<graph, report, order, steps, resultObject, kahn, walk>>

\* `start_node = self._find_start_node(graph)` and the raise when there is none.
RunFindStart ==
    /\ run.pc = "find_start_node"
    /\ run' = IF _find_start_node(graph) = None
              THEN [run EXCEPT !.pc = "raised",
                               !.failures = Append(@, "No Start node found in graph")]
              ELSE [run EXCEPT !.pc = "topological_sort"]
    /\ UNCHANGED <<graph, report, order, steps, resultObject, kahn, walk>>

\* `sorted_nodes = self._topological_sort(graph, start_node)`; `steps = []`
RunTopologicalSort ==
    /\ run.pc = "topological_sort"
    /\ run' = [run EXCEPT !.pc = "convert_node",
                          !.sorted_nodes = _topological_sort(graph, _find_start_node(graph)),
                          !.i = 1, !.steps = <<>>]
    /\ UNCHANGED <<graph, report, order, steps, resultObject, kahn, walk>>

\* One pass of `for node in sorted_nodes: steps.extend(self._convert_node(node, graph))`.
RunConvertNode ==
    /\ run.pc = "convert_node"
    /\ run.i <= Len(run.sorted_nodes)
    /\ run' = [run EXCEPT !.steps = @ \o _convert_node(graph.nodes[run.sorted_nodes[run.i]]),
                          !.i = @ + 1]
    /\ UNCHANGED <<graph, report, order, steps, resultObject, kahn, walk>>

\* `return steps`
RunReturn ==
    /\ run.pc = "convert_node"
    /\ run.i > Len(run.sorted_nodes)
    /\ run' = [run EXCEPT !.pc = "returned"]
    /\ UNCHANGED <<graph, report, order, steps, resultObject, kahn, walk>>

NextRun ==
    \/ ConvertCall
    \/ RunValidateGraph
    \/ RunFindStart
    \/ RunTopologicalSort
    \/ RunConvertNode
    \/ RunReturn

SpecRun == InitRun /\ [][NextRun]_vars /\ WF_vars(NextRun)

\* The state of the converter run a position of the call belongs to.
RunState(r) ==
    CASE r.pc = "idle" -> "Idle"
      [] r.pc \in {"validate_graph", "find_start_node"} -> "Validating"
      [] r.pc = "topological_sort" -> "Ordering"
      [] r.pc = "convert_node" -> "Emitting"
      [] r.pc = "returned" -> "Done"
      [] r.pc = "raised" -> "Failed"

\* The moves Idle -> Validating -> (Failed | Ordering) -> Emitting -> Done, a
\* state being allowed to last several steps.
RunMoves ==
    {<<"Idle", "Validating">>, <<"Validating", "Validating">>, <<"Validating", "Failed">>,
     <<"Validating", "Ordering">>, <<"Ordering", "Emitting">>, <<"Emitting", "Emitting">>,
     <<"Emitting", "Done">>}

(***************************************************************************)
(* C21: every run of convert goes Idle -> Validating -> (Failed |          *)
(* Ordering) -> Emitting (node by node) -> Done; Failed and Done are the   *)
(* only terminal states and every run reaches exactly one of them; Failed  *)
(* is never entered once Emitting has begun; a failed run reports a single *)
(* failure, with no retry.                                                 *)
(***************************************************************************)
RunMove == <<RunState(run), RunState(run')>> \in RunMoves

RunNotOver == RunState(run) \notin {"Failed", "Done"}

C21_RunStateMachine ==
    /\ [][RunMove]_vars
    /\ [][RunNotOver]_vars
    /\ [](RunState(run) \notin {"Failed", "Done"} => ENABLED NextRun)
    /\ <>(RunState(run) \in {"Failed", "Done"})
    /\ [](RunState(run) = "Failed" =>
             (Len(run.failures) = 1 /\ run.steps = <<>>
              /\ convert(graph).exc = "GraphValidationError"
              /\ convert(graph).message = run.failures[1]))
    /\ [](RunState(run) # "Failed" => run.failures = <<>>)
    /\ [](RunState(run) = "Emitting" =>
             (run.i - 1 <= Len(run.sorted_nodes)
              /\ run.steps = ConvertNodes(graph, SubSeq(run.sorted_nodes, 1, run.i - 1), 1)))
    /\ [](RunState(run) = "Done" =>
             (convert(graph).exc = "" /\ run.steps = convert(graph).steps))

\* A run that emitted the steps of three nodes and is Done.
C21_Witness ==
    /\ run.pc = "returned"
    /\ Len(run.sorted_nodes) = 3 /\ run.i = 4
    /\ Len(run.steps) = 2

(***************************************************************************)
(* C22: whenever get_execution_order fails with the cycle error (the       *)
(* processed result is shorter than the node count), the graph contains a  *)
(* directed cycle: the cycle failure is never raised for a graph with      *)
(* exactly one Start node and no directed cycle.                           *)
(***************************************************************************)
CycleFailure(o) ==
    /\ o.exc = "ValueError"
    /\ o.message = "Graph contains cycles - cannot determine execution order"

C22_CycleErrorMeansCycle ==
    (Ordered /\ CycleFailure(order[1]))
        => (StartCount(graph) = 1 /\ HasDirectedCycle(graph))

(***************************************************************************)
(* Specification SpecKahn: get_execution_order followed one iteration of   *)
(* its `while queue` loop at a time, called up to MaxCalls times on the    *)
(* same graph; order collects the outcomes of the calls.                   *)
(***************************************************************************)
InitKahn ==
    /\ graph \in
          GraphsOf(UNION {NodeSeqs(StructuralChoices, n) : n \in 0..MaxNodes},
                   UNION {ExecEdgeSeqs(n) : n \in 0..MaxEdges})
    /\ report = <<>>
    /\ order = <<>>
    /\ steps = <<>>
    /\ resultObject = GraphValidationResult(TRUE)
    /\ run = IdleRun
    /\ kahn = IdleKahn
    /\ walk = IdleWalk

\* Lines 365-377: in_degree, the Start check, the first queue.
OrderCall ==
    /\ kahn.pc \in {"idle", "returned", "raised"}
    /\ Len(order) < MaxCalls
    /\ IF Len(NodesOfType(graph, "Start")) # 1
       THEN /\ kahn' = Kahn("raised", InDegree(graph), <<>>, <<>>)
            /\ order' = Append(order,
                   Outcome("ValueError", "Graph must have exactly one Start node", <<>>))
       ELSE LET in_degree == InDegree(graph)
                ready(n) == in_degree[graph.nodes[n].id] = 0
            IN /\ kahn' = Kahn("loop", in_degree,
                               SelectSeq([i \in 1..Len(graph.nodes) |-> i], ready), <<>>)
               /\ order' = order
    /\ UNCHANGED <<graph, report, steps, resultObject, run, walk>>

\* Lines 380-392: one iteration of `while queue`.
KahnIteration ==
    /\ kahn.pc = "loop"
    /\ kahn.queue # <<>>
    /\ LET q == SortStartFirst(graph, kahn.queue)
           node == q[1]
           st == ReduceSuccessors(graph, get_successors(graph, graph.nodes[node].id), 1,
                     [in_degree |-> kahn.in_degree, queue |-> Tail(q),
                      result |-> Append(kahn.result, node), exc |-> ""])
       IN IF st.exc # ""
          THEN /\ kahn' = Kahn("raised", st.in_degree, st.queue, st.result)
               /\ order' = Append(order, Outcome(st.exc, "", <<>>))
          ELSE /\ kahn' = Kahn("loop", st.in_degree, st.queue, st.result)
               /\ order' = order
    /\ UNCHANGED <<graph, report, steps, resultObject, run, walk>>

\* Lines 394-398: the loop is left, the length check, the return.
KahnCheck ==
    /\ kahn.pc = "loop"
    /\ kahn.queue = <<>>
    /\ IF Len(kahn.result) # Len(graph.nodes)
       THEN /\ kahn' = [kahn EXCEPT !.pc = "raised"]
            /\ order' = Append(order,
                   Outcome("ValueError",
                           "Graph contains cycles - cannot determine execution order", <<>>))
       ELSE /\ kahn' = [kahn EXCEPT !.pc = "returned"]
            /\ order' = Append(order, Outcome("", "", kahn.result))
    /\ UNCHANGED <<graph, report, steps, resultObject, run, walk>>

NextKahn == OrderCall \/ KahnIteration \/ KahnCheck

SpecKahn == InitKahn /\ [][NextKahn]_vars /\ WF_vars(NextKahn)

\* The node objects of type Start at the positions of a queue.
StartsIn(g, queue) == {k \in 1..Len(queue) : g.nodes[queue[k]].type = "Start"}

\* The sequence q without its k-th element.
Without(q, k) == SubSeq(q, 1, k - 1) \o SubSeq(q, k + 1, Len(q))

\* The node an iteration took from the queue.
Chosen == kahn'.result[Len(kahn'.result)]

\* An iteration takes the Start node if it is ready and the head of the queue
\* otherwise; the other ready nodes keep their order and the newly ready ones
\* are put behind them.
SelectionRule ==
    (kahn.pc = "loop" /\ kahn.queue # <<>>) =>
        /\ Len(kahn'.result) = Len(kahn.result) + 1
        /\ SubSeq(kahn'.result, 1, Len(kahn.result)) = kahn.result
        /\ \E k \in 1..Len(kahn.queue) :
              /\ Chosen = kahn.queue[k]
              /\ IF StartsIn(graph, kahn.queue) # {}
                 THEN k = MinOf(StartsIn(graph, kahn.queue))
                 ELSE k = 1
              /\ Len(kahn'.queue) >= Len(kahn.queue) - 1
              /\ SubSeq(kahn'.queue, 1, Len(kahn.queue) - 1) = Without(kahn.queue, k)

(***************************************************************************)
(* C23: at every selection step of get_execution_order where the Start     *)
(* node is ready it is chosen before any other ready node, and ready       *)
(* non-Start nodes are chosen in the order they entered the queue; a Start *)
(* node with no incoming edges is the first element of the result, and the *)
(* result is the same on every call for the same graph.                    *)
(***************************************************************************)
C23_StartFirstStableOrder ==
    /\ [][SelectionRule]_vars
    /\ []((kahn.result # <<>> /\ NoIncoming(graph, StartId(graph)))
             => graph.nodes[kahn.result[1]].type = "Start")
    /\ [](\A c \in 1..Len(order) :
             /\ order[c] = get_execution_order(graph)
             /\ (order[c].nodes # <<>> /\ NoIncoming(graph, StartId(graph)))
                   => graph.nodes[order[c].nodes[1]].type = "Start")
    /\ [](\A c, d \in 1..Len(order) : order[c] = order[d])
    /\ <>(Len(order) = MaxCalls)

\* Two calls returned the three nodes of a graph whose Start node is listed
\* last and has no incoming edge: it is taken first, the others in list order.
C23_Witness ==
    /\ Len(order) = MaxCalls
    /\ kahn.pc = "returned"
    /\ Len(graph.nodes) = 3 /\ graph.nodes[3].type = "Start"
    /\ graph.edges = <<>>
    /\ order[1].nodes = <<3, 1, 2>>

(***************************************************************************)
(* C24: _topological_sort performs a topological sort from the Start node: *)
(* in the node list convert works through for an acyclic graph, for every  *)
(* edge u -> v between returned nodes, u appears before v.                 *)
(***************************************************************************)
C24_ConverterOrderTopological ==
    (Converted /\ steps[1].exc = "" /\ ~HasDirectedCycle(graph)) =>
        LET nodeList == steps[1].nodes IN
        \A i, j \in 1..Len(nodeList) :
            HasEdge(graph, graph.nodes[nodeList[i]].id, graph.nodes[nodeList[j]].id) => i < j

\* The warnings of a report with the given message.
WarningsWith(r, fmt) == {w \in 1..Len(r.warnings) : r.warnings[w].message.fmt = fmt}

\* nodeList holds every node object of g exactly once.
VisitsEveryNodeOnce(g, nodeList) ==
    /\ Len(nodeList) = Len(g.nodes)
    /\ {nodeList[k] : k \in 1..Len(nodeList)} = 1..Len(g.nodes)

(***************************************************************************)
(* C25: on every graph for which validate reports zero errors, every node  *)
(* is reachable from the single Start node along successor edges (each     *)
(* non-Start node has an incoming edge and the graph is acyclic), so the   *)
(* report holds no "unreachable" and no "isolated" warning and convert     *)
(* visits every node of the graph exactly once.                            *)
(***************************************************************************)
C25_ValidGraphFullyReachable ==
    (Validated /\ LastReport.exc = "" /\ Len(LastReport.errors) = 0) =>
        /\ StartCount(graph) = 1
        /\ \A i \in 1..Len(graph.nodes) :
              /\ graph.nodes[i].id \in ReachStar(graph, StartId(graph))
              /\ graph.nodes[i].type # "Start" => ~NoIncoming(graph, graph.nodes[i].id)
        /\ ~HasDirectedCycle(graph)
        /\ WarningsWith(LastReport, "Node is unreachable from Start") = {}
        /\ WarningsWith(LastReport, "Node is isolated") = {}
        /\ Converted =>
              /\ steps[1].exc = ""
              /\ VisitsEveryNodeOnce(graph, steps[1].nodes)

\* A graph of three nodes without errors, converted.
C25_Witness ==
    /\ Validated /\ Converted
    /\ LastReport.exc = "" /\ Len(LastReport.errors) = 0
    /\ Len(graph.nodes) = 3
    /\ Len(steps[1].nodes) = 3

\* The node objects whose id cannot be reached from the Start node's id.
UnreachableNodes(g) ==
    {i \in 1..Len(g.nodes) : g.nodes[i].id \notin ReachStar(g, StartId(g))}

\* Acyclic, exactly one Start node, every type in the handler table.
ConvertibleGraph(g) ==
    /\ StartCount(g) = 1
    /\ ~HasDirectedCycle(g)
    /\ \A i \in 1..Len(g.nodes) : g.nodes[i].type \in node_handlers

\* convert leaves the unreachable nodes out and does not fail.
UnreachableSkipped ==
    /\ steps[1].exc = ""
    /\ steps[1].steps = ConvertNodes(graph, steps[1].nodes, 1)
    /\ \A i \in UnreachableNodes(graph) : \A k \in 1..Len(steps[1].nodes) : steps[1].nodes[k] # i

\* get_execution_order returns them.
UnreachableOrdered ==
    \A i \in UnreachableNodes(graph) :
        /\ order[1].exc = ""
        /\ \E k \in 1..Len(order[1].nodes) : order[1].nodes[k] = i

(***************************************************************************)
(* C26: in an acyclic graph whose node types are all known, a node not     *)
(* reachable from the Start node contributes no step to convert and causes *)
(* no failure, whereas get_execution_order on the same graph includes that *)
(* node in its result.                                                     *)
(***************************************************************************)
C26_UnreachableSkippedButOrdered ==
    (Converted /\ Ordered /\ ConvertibleGraph(graph))
        => (UnreachableSkipped /\ UnreachableOrdered)

\* The same for the graphs get_execution_order is written for: node ids
\* unique and every edge joining two listed nodes; and the convert half alone.
C26_WellFormedCase ==
    (Converted /\ Ordered /\ ConvertibleGraph(graph)) =>
        /\ UnreachableSkipped
        /\ (/\ DuplicateNodeIds(graph) = {}
            /\ \A e \in 1..Len(graph.edges) : EdgeResolved(graph, graph.edges[e]))
              => UnreachableOrdered

\* The two cycle checks give the same verdict, and validate gives it once.
CycleChecksAgree ==
    /\ LastReport.exc = ""
    /\ (CycleErrors(LastReport) # {}) <=> _has_cycles(graph)
    /\ Cardinality(CycleErrors(LastReport)) <= 1
    /\ Converted =>
          ((steps[1].exc = "GraphValidationError" /\ steps[1].message = "Graph contains cycles")
              <=> _has_cycles(graph))

\* The claim as written: the verdict is that of the whole successor relation.
C27_CycleChecksExact ==
    Validated => (CycleChecksAgree /\ (_has_cycles(graph) <=> HasDirectedCycle(graph)))

(***************************************************************************)
(* C27 as amended: validate records the error "Graph contains a cycle"     *)
(* exactly when NodeConverter._has_cycles returns true, which is exactly   *)
(* when a directed cycle (self-loops included) can be reached along edges  *)
(* from the id of a node of the node list; validate records at most one    *)
(* cycle error per run.                                                    *)
(***************************************************************************)
C27_CycleChecksAgreeOnListed ==
    Validated => (CycleChecksAgree /\ (_has_cycles(graph) <=> HasListedCycle(graph)))

\* Both checks ran on a graph with a self-loop on a listed node and one cycle
\* error is recorded.
C27_Witness ==
    /\ Validated /\ Converted
    /\ \E i \in 1..Len(graph.nodes) : HasEdge(graph, graph.nodes[i].id, graph.nodes[i].id)
    /\ Cardinality(CycleErrors(LastReport)) = 1
    /\ steps[1].message = "Graph contains cycles"

\* The failure convert ends with ("" when it returns), given which of the
\* three failure conditions hold: the first that holds, in this order.
FailureByPriority(cycle, unknownType, noStart) ==
    IF cycle THEN "Graph contains cycles"
    ELSE IF unknownType THEN "Unknown node type: {node.type}"
    ELSE IF noStart THEN "No Start node found in graph"
    ELSE ""

HasUnknownType(g) == \E i \in 1..Len(g.nodes) : g.nodes[i].type \notin node_handlers

ConvertFailsWith(message) ==
    IF message = "" THEN steps[1].exc = ""
    ELSE /\ steps[1].exc = "GraphValidationError"
         /\ steps[1].message = message
         /\ steps[1].steps = <<>>

\* The claim as written: any directed cycle of the successor relation.
C28_FailurePriority ==
    Converted =>
        ConvertFailsWith(FailureByPriority(HasDirectedCycle(graph), HasUnknownType(graph),
                                           StartCount(graph) = 0))

(***************************************************************************)
(* C28 as amended: when several failure conditions hold at once, convert   *)
(* reports exactly one of them in a fixed priority: a directed cycle that  *)
(* can be reached from a listed node before an unknown node type, and an   *)
(* unknown node type before a missing Start node; the empty graph fails    *)
(* with the missing-Start error.                                           *)
(***************************************************************************)
C28_FailurePriorityListed ==
    Converted =>
        /\ ConvertFailsWith(FailureByPriority(HasListedCycle(graph), HasUnknownType(graph),
                                              StartCount(graph) = 0))
        /\ graph.nodes = <<>> =>
              (steps[1].exc = "GraphValidationError"
               /\ steps[1].message = "No Start node found in graph")

\* A graph with a cycle, an unknown type and no Start node: the cycle error.
C28_Witness ==
    /\ Converted
    /\ HasListedCycle(graph) /\ HasUnknownType(graph) /\ StartCount(graph) = 0
    /\ steps[1].exc = "GraphValidationError"
    /\ steps[1].message = "Graph contains cycles"

(***************************************************************************)
(* C29: convert does not fail on an acyclic graph with more than one Start *)
(* node whose types are all known: it traverses from the first Start node  *)
(* in node-list order and omits the nodes that cannot be reached from it,  *)
(* while get_execution_order and validate both reject the same graph.      *)
(***************************************************************************)
C29_SeveralStartNodes ==
    (/\ StartCount(graph) > 1
     /\ ~HasDirectedCycle(graph)
     /\ ~HasUnknownType(graph)) =>
        /\ Converted =>
              /\ steps[1].exc = ""
              /\ steps[1].nodes # <<>>
              /\ graph.nodes[steps[1].nodes[1]].id = StartId(graph)
              /\ steps[1].nodes[1] = Resolve(graph, StartId(graph))
              /\ DuplicateNodeIds(graph) = {} =>
                    steps[1].nodes[1] = MinOf({i \in 1..Len(graph.nodes) : graph.nodes[i].type = "Start"})
              /\ {graph.nodes[steps[1].nodes[k]].id : k \in 1..Len(steps[1].nodes)}
                    = ListedClosure(graph, {StartId(graph)})
              /\ \A i \in UnreachableNodes(graph) :
                    \A k \in 1..Len(steps[1].nodes) : steps[1].nodes[k] # i
              /\ steps[1].steps = ConvertNodes(graph, steps[1].nodes, 1)
        /\ Ordered =>
              /\ order[1].exc = "ValueError"
              /\ order[1].message = "Graph must have exactly one Start node"
              /\ order[1].nodes = <<>>
        /\ Validated =>
              /\ LastReport.exc = ""
              /\ ~LastReport.is_valid
              /\ \E e \in 1..Len(LastReport.errors) :
                    LastReport.errors[e].message.fmt = "Graph has multiple Start nodes ({len(start_nodes)})"

\* Start nodes s1 and s2 and a node only s2 leads to: convert returns s1 alone,
\* the other two calls reject the graph.
C29_Witness ==
    /\ Converted /\ Ordered /\ Validated
    /\ Len(graph.nodes) = 3
    /\ graph.nodes[1].type = "Start" /\ graph.nodes[2].type = "Start"
    /\ graph.nodes[3].type = "End"
    /\ HasEdge(graph, graph.nodes[2].id, graph.nodes[3].id)
    /\ steps[1].exc = "" /\ steps[1].nodes = <<1>>
    /\ order[1].exc = "ValueError"
    /\ ~LastReport.is_valid

(***************************************************************************)
(* Specification SpecWalk: the loops of the three entry points that are    *)
(* not bounded by the length of a list, followed one step at a time: the   *)
(* cycle search of _validate_cycles, the breadth-first search of           *)
(* _validate_reachability, the breadth-first search of _topological_sort   *)
(* and the `while queue` loop of get_execution_order.  A behaviour follows *)
(* one of them on a graph that may hold cycles, self-loops, parallel and   *)
(* dangling edges, unreachable nodes and repeated ids.                     *)
(***************************************************************************)
WalkChoices == {Choice(t, NoParams) : t \in {"Start", "LinearMove"}}

InitWalk ==
    /\ graph \in
          GraphsOf(UNION {NodeSeqs(WalkChoices, n) : n \in 0..MaxNodes},
                   UNION {ExecEdgeSeqs(n) : n \in 0..MaxEdges})
    /\ report = <<>>
    /\ order = <<>>
    /\ steps = <<>>
    /\ resultObject = GraphValidationResult(TRUE)
    /\ run = IdleRun
    /\ kahn = IdleKahn
    /\ walk = IdleWalk

\* A pending call dfs(node_id, path) that is at the k-th successor of node_id.
Frame(node_id, path, k) == [node_id |-> node_id, path |-> path, k |-> k]

\* The traversal is entered: the statements before its loop.
WalkCall ==
    /\ walk.pc = "idle"
    /\ kahn.pc = "idle"
    /\ \E kind \in {"cycle_dfs", "reachability", "topological_sort"} :
          walk' =
             CASE kind = "cycle_dfs" ->
                    Walk("loop", kind, 1, <<>>, <<>>, {}, {}, <<>>, <<>>)
               [] kind = "reachability" ->
                    IF ~ReachabilityChecked(graph)
                    THEN Walk("done", kind, None, <<>>, <<>>, {}, {}, <<>>, <<>>)
                    ELSE Walk("loop", kind, None, <<>>, <<NodesOfType(graph, "Start")[1].id>>,
                              {}, {}, <<>>, <<>>)
               [] kind = "topological_sort" ->
                    IF _find_start_node(graph) = None
                    THEN Walk("done", kind, None, <<>>, <<>>, {}, {}, <<>>, <<>>)
                    ELSE Walk("loop", kind, None, <<>>,
                              <<graph.nodes[_find_start_node(graph)].id>>, {}, {}, <<>>, <<>>)
    /\ UNCHANGED <<graph, report, order, steps, resultObject, run, kahn>>

\* Mutant: dfs is called on every node of the list, visited or not.
DfsRoot_every_node ==
    /\ walk.pc = "loop" /\ walk.kind = "cycle_dfs"
    /\ walk.stack = <<>>
    /\ walk' =
          IF walk.i > Len(graph.nodes) THEN [walk EXCEPT !.pc = "done"]
          ELSE LET node_id == graph.nodes[walk.i].id IN
               [walk EXCEPT !.i = @ + 1,
                            !.stack = <<Frame(node_id, <<node_id>>, 1)>>,
                            !.visited = @ \union {node_id},
                            !.rec_stack = @ \union {node_id},
                            !.processed = Append(@, node_id)]
    /\ UNCHANGED <<graph, report, order, steps, resultObject, run, kahn>>

\* _validate_cycles, `for node in graph.nodes`: no dfs call is pending.
DfsRoot ==
    /\ walk.pc = "loop" /\ walk.kind = "cycle_dfs"
    /\ walk.stack = <<>>
    /\ walk' =
          IF walk.i > Len(graph.nodes) THEN [walk EXCEPT !.pc = "done"]
          ELSE IF graph.nodes[walk.i].id \notin walk.visited
          THEN LET node_id == graph.nodes[walk.i].id IN
               [walk EXCEPT !.i = @ + 1,
                            !.stack = <<Frame(node_id, <<node_id>>, 1)>>,
                            !.visited = @ \union {node_id},
                            !.rec_stack = @ \union {node_id},
                            !.processed = Append(@, node_id)]
          ELSE [walk EXCEPT !.i = @ + 1]
    /\ UNCHANGED <<graph, report, order, steps, resultObject, run, kahn>>

\* _validate_cycles, the innermost pending dfs call: one turn of its
\* `for successor_id in graph.get_successors(node_id)` loop, or its return.
DfsStep ==
    /\ walk.pc = "loop" /\ walk.kind = "cycle_dfs"
    /\ walk.stack # <<>>
    /\ LET top == walk.stack[Len(walk.stack)]
           below == SubSeq(walk.stack, 1, Len(walk.stack) - 1)
           succs == get_successors(graph, top.node_id)
       IN walk' =
             IF top.k > Len(succs)
             THEN [walk EXCEPT !.stack = below, !.rec_stack = @ \ {top.node_id}]
             ELSE IF succs[top.k] \notin walk.visited
             THEN [walk EXCEPT !.stack = Append(below, [top EXCEPT !.k = @ + 1])
                                           \o <<Frame(succs[top.k],
                                                      Append(top.path, succs[top.k]), 1)>>,
                               !.visited = @ \union {succs[top.k]},
                               !.rec_stack = @ \union {succs[top.k]},
                               !.processed = Append(@, succs[top.k])]
             ELSE IF OnStack(succs[top.k], walk.rec_stack)
             THEN [walk EXCEPT !.pc = "done", !.stack = <<>>,
                               !.result = SubSeq(top.path, ListIndex(top.path, succs[top.k], 1),
                                                 Len(top.path)) \o <<succs[top.k]>>]
             ELSE [walk EXCEPT !.stack = Append(below, [top EXCEPT !.k = @ + 1])]
    /\ UNCHANGED <<graph, report, order, steps, resultObject, run, kahn>>

\* _validate_reachability, one turn of `while queue` (or leaving the loop).
ReachStep ==
    /\ walk.pc = "loop" /\ walk.kind = "reachability"
    /\ walk' =
          IF walk.queue = <<>> THEN [walk EXCEPT !.pc = "done"]
          ELSE LET node_id == Head(walk.queue) IN
               IF node_id \in walk.visited THEN [walk EXCEPT !.queue = Tail(@)]
               ELSE [walk EXCEPT !.queue = Tail(@) \o get_successors(graph, node_id),
                                 !.visited = @ \union {node_id},
                                 !.processed = Append(@, node_id)]
    /\ UNCHANGED <<graph, report, order, steps, resultObject, run, kahn>>

\* _topological_sort, one turn of `while queue` (or leaving the loop).
TopoStep ==
    /\ walk.pc = "loop" /\ walk.kind = "topological_sort"
    /\ walk' =
          IF walk.queue = <<>> THEN [walk EXCEPT !.pc = "done"]
          ELSE LET node_id == Head(walk.queue) IN
               IF node_id \in walk.visited THEN [walk EXCEPT !.queue = Tail(@)]
               ELSE IF get_node(graph, node_id) # None
               THEN [walk EXCEPT !.queue = Tail(@) \o UnvisitedOf(get_successors(graph, node_id),
                                                                  walk.visited \union {node_id}),
                                 !.visited = @ \union {node_id},
                                 !.result = Append(@, get_node(graph, node_id)),
                                 !.processed = Append(@, node_id)]
               ELSE [walk EXCEPT !.queue = Tail(@),
                                 !.visited = @ \union {node_id},
                                 !.processed = Append(@, node_id)]
    /\ UNCHANGED <<graph, report, order, steps, resultObject, run, kahn>>

\* get_execution_order, when no traversal is being followed.
KahnAlone == walk.pc = "idle" /\ NextKahn

NextWalk == WalkCall \/ DfsRoot \/ DfsStep \/ ReachStep \/ TopoStep \/ KahnAlone

SpecWalk == InitWalk /\ [][NextWalk]_vars /\ WF_vars(NextWalk)

\* No element occurs twice in the sequence.
NoRepeat(sq) == \A j, k \in 1..Len(sq) : j # k => sq[j] # sq[k]

\* A finished traversal returns what the entry point computes in one piece.
WalkResultAgrees ==
    walk.pc = "done" =>
        CASE walk.kind = "cycle_dfs" ->
               /\ walk.result = FirstCycle(graph, 1, DfsState({}, {}, <<>>))
               /\ (walk.result # <<>>) <=> _has_cycles(graph)
          [] walk.kind = "reachability" ->
               ReachabilityChecked(graph) =>
                   /\ NodeIds(graph) \ walk.visited = Unreachable(graph)
                   /\ walk.visited = ReachStar(graph, StartId(graph))
          [] walk.kind = "topological_sort" ->
               _find_start_node(graph) # None =>
                   walk.result = _topological_sort(graph, _find_start_node(graph))

\* Every loop comes to its end, and each traversal marks an id at most once.
LoopsTerminate ==
    /\ [](NoRepeat(walk.processed))
    /\ [](Len(walk.processed) <= Cardinality(NodeIds(graph) \union EdgeEnds(graph)))
    /\ [](WalkResultAgrees)
    /\ [](kahn.pc = "returned" => order[Len(order)] = get_execution_order(graph))
    /\ (walk.pc = "loop") ~> (walk.pc = "done")
    /\ (kahn.pc = "loop") ~> (kahn.pc \in {"returned", "raised"})
    /\ <>(walk.pc = "done" \/ Len(order) = MaxCalls)

\* The claim as written: the Kahn loop takes every node id at most once.
C30_EachIdOnce ==
    /\ LoopsTerminate
    /\ [](NoRepeat([k \in 1..Len(kahn.result) |-> graph.nodes[kahn.result[k]].id]))

(***************************************************************************)
(* C30 as amended: validate, get_execution_order and convert terminate on  *)
(* every finite graph, including graphs with directed cycles, self-loops,  *)
(* parallel edges and unreachable nodes: the cycle DFS, the reachability   *)
(* BFS and the converter BFS each process every node id at most once, and  *)
(* the Kahn loop processes every node of the node list at most once.       *)
(***************************************************************************)
C30_LoopsTerminate ==
    /\ LoopsTerminate
    /\ [](NoRepeat(kahn.result))
    /\ [](Len(kahn.result) <= Len(graph.nodes))

\* The cycle search ended on a cycle through two nodes after marking three ids.
C30_Witness ==
    /\ walk.pc = "done" /\ walk.kind = "cycle_dfs"
    /\ Len(walk.result) = 3
    /\ Len(walk.processed) = 3

====
